---- MODULE Spec2Model ----
(***************************************************************************)
(* ETL_Parser: the mapping loader (src/src/mapping_parser.py), the query   *)
(* synthesizer (src/src/sql_generator.py) and the validation orchestrator  *)
(* (src/src/etl_validator.py).                                             *)
(*                                                                         *)
(* Text is a sequence of lexemes: a lexeme is a maximal run of word        *)
(* characters, one whitespace character or one punctuation character.      *)
(* A cell of the mapping file is its raw text; pandas turns it into a      *)
(* typed value [t, v] (t the Python type, v the text str() gives).         *)
(***************************************************************************)
EXTENDS Integers, Sequences, FiniteSets, TLC

VARIABLES
  mappings,          \* ETLValidator.mappings
  parser_mappings,   \* ETLValidator.parser.mappings (MappingParser.mappings)
  generator,         \* ETLValidator.generator: None or a SQLGenerator
  required_order,    \* iteration order of the set REQUIRED_COLUMNS in this process
  input,             \* the mapping file under study (NoInput when files vary)
  last,              \* the last call on the orchestrator and its outcome
  load_history,      \* history: what the load_mappings calls so far did
  earlier,           \* a caller's variable: the outcome of an earlier call it kept
  calls,             \* the calls in flight, by thread: statement reached and locals
  shares_file        \* the playground's shares.json: whether it parses, and its dict

vars ==
  <<mappings, parser_mappings, generator, required_order, input, last, load_history,
    earlier, calls, shares_file>>

(***************************************************************************)
(* Bounds                                                                  *)
(***************************************************************************)
MaxRows == 2

(***************************************************************************)
(* Text helpers                                                            *)
(***************************************************************************)
Word(w) == <<w>>

Whitespace == {" ", "\t"}

\* Python str order on the single-word texts of the model (code point order)
WordOrder ==
  << "1", "amount", "cust_id", "customer_id", "customers", "is_key", "name",
     "notes", "orders", "orders_tgt", "s1", "source_column", "target_column",
     "total", "transformation" >>

Rank(w) == CHOOSE i \in 1..Len(WordOrder) : WordOrder[i] = w

\* a < b for single-word texts
TextLess(a, b) == Rank(a[1]) < Rank(b[1])

RECURSIVE SortedSeq(_)
\* sorted(S) for a set S of single-word texts
SortedSeq(S) ==
  IF S = {} THEN <<>>
  ELSE LET m == CHOOSE x \in S : \A y \in S \ {x} : TextLess(x, y)
       IN  <<m>> \o SortedSeq(S \ {m})

Range(s) == {s[i] : i \in DOMAIN s}

(***************************************************************************)
(* Typed values (what pandas and to_dict hand to the program)              *)
(***************************************************************************)
None == [t |-> "NoneType", v |-> <<>>]
NaN == [t |-> "nan", v |-> <<>>]
StrVal(x) == [t |-> "str", v |-> x]
IntVal(x) == [t |-> "int", v |-> x]
FloatVal(x) == [t |-> "float", v |-> x]
BoolVal(x) == [t |-> "bool", v |-> x]

\* pd.isna / Series.notna on a scalar
IsNa(x) == x.t \in {"nan", "NoneType"}

\* Python truth value
Truthy(x) ==
  CASE x.t = "NoneType" -> FALSE
    [] x.t = "nan" -> TRUE
    [] x.t = "str" -> x.v # <<>>
    [] x.t = "bool" -> x.v = <<"True">>
    [] x.t = "int" -> x.v # <<"0">>
    [] x.t = "float" -> x.v # <<"0", ".", "0">>

(***************************************************************************)
(* Mapping files                                                           *)
(***************************************************************************)
SOURCE_COLUMN == Word("source_column")
TARGET_COLUMN == Word("target_column")
TRANSFORMATION == Word("transformation")
IS_KEY == Word("is_key")
NOTES == Word("notes")

\* str.lower on a lexeme
Lower(w) ==
  CASE w = "Source_Column" -> "source_column"
    [] w = "TARGET_COLUMN" -> "target_column"
    [] w = "Target_Column" -> "target_column"
    [] w = "Transformation" -> "transformation"
    [] OTHER -> w

RECURSIVE LStrip(_)
LStrip(s) == IF s # <<>> /\ Head(s) \in Whitespace THEN LStrip(Tail(s)) ELSE s

RECURSIVE RStrip(_)
RStrip(s) ==
  IF s # <<>> /\ s[Len(s)] \in Whitespace THEN RStrip(SubSeq(s, 1, Len(s) - 1)) ELSE s

\* str.strip
Strip(s) == RStrip(LStrip(s))

\* df.columns.str.strip().str.lower() on one column name
NormalizeName(name) == LET s == Strip(name) IN [i \in DOMAIN s |-> Lower(s[i])]

\* raw header lines of the files of the model
HdrNone == <<>>
HdrKeyed ==
  << <<" ", "Source_Column">>, <<"TARGET_COLUMN", " ">>, <<"Transformation">>, IS_KEY >>
HdrNoTransformation == <<SOURCE_COLUMN, TARGET_COLUMN, IS_KEY>>
HdrOnlyTarget == << <<"Target_Column">>, NOTES >>
HdrDuplicate == <<SOURCE_COLUMN, <<"Source_Column">>, TARGET_COLUMN, TRANSFORMATION>>

Headers == {HdrNone, HdrKeyed, HdrNoTransformation, HdrOnlyTarget, HdrDuplicate}

\* the rows a mapping author writes, by logical column; <<>> is an empty cell
RowFull ==
  (SOURCE_COLUMN :> Word("customer_id")) @@ (TARGET_COLUMN :> Word("cust_id")) @@
  (TRANSFORMATION :> <<"customers", ".", "customer_id">>) @@
  (IS_KEY :> Word("TRUE")) @@ (NOTES :> <<>>)
RowExpr ==
  (SOURCE_COLUMN :> Word("name")) @@ (TARGET_COLUMN :> Word("cust_id")) @@
  (TRANSFORMATION :> <<"UPPER", "(", " ", "customers", ".", "name", " ", " ", ")">>) @@
  (IS_KEY :> <<>>) @@ (NOTES :> <<>>)
RowConst ==
  (SOURCE_COLUMN :> Word("amount")) @@ (TARGET_COLUMN :> Word("total")) @@
  (TRANSFORMATION :> Word("1")) @@
  (IS_KEY :> Word("FALSE")) @@ (NOTES :> Word("amount"))
RowNoTarget ==
  (SOURCE_COLUMN :> Word("customer_id")) @@ (TARGET_COLUMN :> <<>>) @@
  (TRANSFORMATION :> <<"customers", ".", "customer_id">>) @@
  (IS_KEY :> <<>>) @@ (NOTES :> <<>>)
RowOnlyTarget ==
  (SOURCE_COLUMN :> <<>>) @@ (TARGET_COLUMN :> Word("total")) @@
  (TRANSFORMATION :> <<>>) @@
  (IS_KEY :> <<>>) @@ (NOTES :> <<>>)
RowBlank ==
  (SOURCE_COLUMN :> <<>>) @@ (TARGET_COLUMN :> <<>>) @@ (TRANSFORMATION :> <<>>) @@
  (IS_KEY :> <<>>) @@ (NOTES :> <<>>)

RowPool == {RowFull, RowExpr, RowConst, RowNoTarget, RowOnlyTarget, RowBlank}

\* the line of the file that holds logical row r under header h
Line(h, r) == [j \in DOMAIN h |-> r[NormalizeName(h[j])]]

RowSeqs == UNION {[1..n -> RowPool] : n \in 0..MaxRows}

\* the files of the model: a header line and at most MaxRows lines of cells
Files ==
  {[header |-> HdrNone, rows |-> <<>>]} \cup
  {[header |-> h, rows |-> [i \in DOMAIN rs |-> Line(h, rs[i])]] :
     h \in Headers \ {HdrNone}, rs \in RowSeqs}

NoInput == [header |-> <<>>, rows |-> << <<>> >>]

(***************************************************************************)
(* pandas.read_csv: column type inference                                  *)
(***************************************************************************)
BoolTexts == {Word("TRUE"), Word("FALSE")}
IntTexts == {Word("1")}

\* dtype pandas infers for a column from the raw texts of its cells
ColumnDtype(cells) ==
  LET filled == {i \in DOMAIN cells : cells[i] # <<>>}
  IN  IF filled = {} THEN "float64"
      ELSE IF \A i \in filled : cells[i] \in BoolTexts
           THEN IF filled = DOMAIN cells THEN "bool" ELSE "object"
      ELSE IF \A i \in filled : cells[i] \in IntTexts
           THEN IF filled = DOMAIN cells THEN "int64" ELSE "float64"
      ELSE "object"

\* the value of one cell in a column of the given dtype
Convert(cell, dtype, boolish) ==
  IF cell = <<>> THEN NaN
  ELSE CASE dtype = "bool" -> BoolVal(IF cell = Word("TRUE") THEN Word("True") ELSE Word("False"))
         [] dtype = "int64" -> IntVal(cell)
         [] dtype = "float64" -> FloatVal(cell \o <<".", "0">>)
         [] OTHER -> IF boolish
                     THEN BoolVal(IF cell = Word("TRUE") THEN Word("True") ELSE Word("False"))
                     ELSE StrVal(cell)

\* the suffix pandas gives the n-th repetition of a column name
DupeSuffix(n) == <<".", CASE n = 1 -> "1" [] n = 2 -> "2" [] OTHER -> "3">>

\* the column names read_csv gives a header line: a name written again, letter for
\* letter, gets .1, .2, ... appended
MangleDupeCols(header) ==
  [j \in DOMAIN header |->
     LET before == Cardinality({k \in 1..(j - 1) : header[k] = header[j]})
     IN  IF before = 0 THEN header[j] ELSE header[j] \o DupeSuffix(before)]

\* pd.read_csv(csv_path): a DataFrame, or EmptyDataError for a file without header
read_csv(file) ==
  IF file.header = <<>>
  THEN [raised |-> TRUE, columns |-> <<>>, data |-> <<>>]
  ELSE LET col(j) == [i \in DOMAIN file.rows |-> file.rows[i][j]]
           boolish(j) == \A i \in DOMAIN file.rows :
                            file.rows[i][j] = <<>> \/ file.rows[i][j] \in BoolTexts
       IN  [raised |-> FALSE,
            columns |-> MangleDupeCols(file.header),
            data |-> [i \in DOMAIN file.rows |->
                        [j \in DOMAIN file.header |->
                           Convert(file.rows[i][j], ColumnDtype(col(j)), boolish(j))]]]

(***************************************************************************)
(* MappingParser                                                           *)
(***************************************************************************)
REQUIRED_COLUMNS == {SOURCE_COLUMN, TARGET_COLUMN, TRANSFORMATION}

\* the orders in which a process can iterate the set REQUIRED_COLUMNS
SetOrders ==
  {o \in [1..Cardinality(REQUIRED_COLUMNS) -> REQUIRED_COLUMNS] : Range(o) = REQUIRED_COLUMNS}

Error(kind, columns, found, count) ==
  [kind |-> kind, columns |-> columns, found |-> found, count |-> count]

NoError == Error("", <<>>, <<>>, 0)

\* positions of the columns named c
Positions(columns, c) == {j \in DOMAIN columns : columns[j] = c}

\* df[col].notna().sum() for a column name that occurs once
NonNullCount(data, j) == Cardinality({i \in DOMAIN data : ~IsNa(data[i][j])})

RECURSIVE CheckColumnsHaveData(_, _, _)
\* lines 53-56: the first column, in the set's order, that stops the loop
CheckColumnsHaveData(columns, data, order) ==
  IF order = <<>> THEN NoError
  ELSE LET col == Head(order)
           at == Positions(columns, col)
       IN  IF Cardinality(at) > 1
           THEN Error("ambiguous_truth_value", <<>>, <<>>, 0)
           ELSE IF NonNullCount(data, CHOOSE j \in at : TRUE) = 0
                THEN Error("column_empty", <<col>>, <<>>, 0)
                ELSE CheckColumnsHaveData(columns, data, Tail(order))

\* row.get(name) of a row of the frame whose column names are unique where required
RowGet(columns, row, name) ==
  IF Positions(columns, name) = {} THEN None
  ELSE row[CHOOSE j \in Positions(columns, name) : TRUE]

\* EmptyRows with the target_column test left out of line 61
EmptyRows_TargetForgotten(columns, data) ==
  Cardinality({i \in DOMAIN data :
     \/ IsNa(RowGet(columns, data[i], SOURCE_COLUMN))
     \/ IsNa(RowGet(columns, data[i], TRANSFORMATION))})

\* lines 59-62: the rows with a missing required value
EmptyRows(columns, data) ==
  Cardinality({i \in DOMAIN data :
     \/ IsNa(RowGet(columns, data[i], SOURCE_COLUMN))
     \/ IsNa(RowGet(columns, data[i], TARGET_COLUMN))
     \/ IsNa(RowGet(columns, data[i], TRANSFORMATION))})

\* df.empty
DfEmpty(df) == Len(df.columns) = 0 \/ Len(df.data) = 0

\* validate_format with the row scan (lines 58-65) ahead of the column loop (lines 52-56)
validate_format_RowsFirst(df, order) ==
  IF DfEmpty(df) THEN Error("file_empty", <<>>, <<>>, 0)
  ELSE LET columns == [j \in DOMAIN df.columns |-> NormalizeName(df.columns[j])]
           available_columns == Range(columns)
           missing_columns == REQUIRED_COLUMNS \ available_columns
       IN  IF missing_columns # {}
           THEN Error("missing_columns", SortedSeq(missing_columns),
                      SortedSeq(available_columns), 0)
           ELSE LET e == CheckColumnsHaveData(columns, df.data, order)
                    empty_rows == EmptyRows(columns, df.data)
                IN  IF e.kind # "ambiguous_truth_value" /\ empty_rows > 0
                    THEN Error("incomplete_rows", <<>>, <<>>, empty_rows)
                    ELSE e

\* validate_format without the row scan of lines 58-65
validate_format_NoRowCheck(df, order) ==
  IF DfEmpty(df) THEN Error("file_empty", <<>>, <<>>, 0)
  ELSE LET columns == [j \in DOMAIN df.columns |-> NormalizeName(df.columns[j])]
           available_columns == Range(columns)
           missing_columns == REQUIRED_COLUMNS \ available_columns
       IN  IF missing_columns # {}
           THEN Error("missing_columns", SortedSeq(missing_columns),
                      SortedSeq(available_columns), 0)
           ELSE CheckColumnsHaveData(columns, df.data, order)

\* validate_format looking for the required names among the names as written (line 40 left out)
validate_format_RawNames(df, order) ==
  IF DfEmpty(df) THEN Error("file_empty", <<>>, <<>>, 0)
  ELSE LET columns == df.columns
           available_columns == Range(columns)
           missing_columns == REQUIRED_COLUMNS \ available_columns
       IN  IF missing_columns # {}
           THEN Error("missing_columns", SortedSeq(missing_columns),
                      SortedSeq({NormalizeName(c) : c \in available_columns}), 0)
           ELSE LET e == CheckColumnsHaveData(columns, df.data, order)
                    empty_rows == EmptyRows(columns, df.data)
                IN  IF e # NoError THEN e
                    ELSE IF empty_rows > 0
                         THEN Error("incomplete_rows", <<>>, <<>>, empty_rows)
                         ELSE NoError

\* MappingParser.validate_format: NoError when the frame is valid
validate_format(df, order) ==
  IF DfEmpty(df) THEN Error("file_empty", <<>>, <<>>, 0)
  ELSE LET columns == [j \in DOMAIN df.columns |-> NormalizeName(df.columns[j])]
           available_columns == Range(columns)
           missing_columns == REQUIRED_COLUMNS \ available_columns
       IN  IF missing_columns # {}
           THEN Error("missing_columns", SortedSeq(missing_columns),
                      SortedSeq(available_columns), 0)
           ELSE LET e == CheckColumnsHaveData(columns, df.data, order)
                    empty_rows == EmptyRows(columns, df.data)
                IN  IF e # NoError THEN e
                    ELSE IF empty_rows > 0
                         THEN Error("incomplete_rows", <<>>, <<>>, empty_rows)
                         ELSE NoError

\* to_records keeping, of the rows with one target_column, only the last
to_records_LastPerTarget(columns, data) ==
  LET target(i) == RowGet(columns, data[i], TARGET_COLUMN)
      kept == SelectSeq([i \in DOMAIN data |-> i],
                        LAMBDA i : \A k \in DOMAIN data : target(k) = target(i) => k <= i)
  IN  [n \in DOMAIN kept |->
         [c \in Range(columns) |->
            LET j == CHOOSE j \in Positions(columns, c) :
                       \A k \in Positions(columns, c) : k <= j
            IN  IF IsNa(data[kept[n]][j]) THEN None ELSE data[kept[n]][j]]]

\* df.to_dict('records') followed by the NaN clean-up loop
to_records(columns, data) ==
  [i \in DOMAIN data |->
     [c \in Range(columns) |->
        LET j == CHOOSE j \in Positions(columns, c) :
                   \A k \in Positions(columns, c) : k <= j
        IN  IF IsNa(data[i][j]) THEN None ELSE data[i][j]]]

\* MappingParser.parse: the mappings, or the ValueError it raises
parse(file, order) ==
  LET df == read_csv(file)
  IN  IF df.raised
      THEN [ok |-> FALSE, error |-> Error("no_columns_to_parse", <<>>, <<>>, 0), mappings |-> <<>>]
      ELSE LET e == validate_format(df, order)
               columns == [j \in DOMAIN df.columns |-> NormalizeName(df.columns[j])]
           IN  IF e # NoError
               THEN [ok |-> FALSE, error |-> e, mappings |-> <<>>]
               ELSE [ok |-> TRUE, error |-> NoError, mappings |-> to_records(columns, df.data)]

\* dict.get(key) on a mapping entry
Get(mapping, key) == IF key \in DOMAIN mapping THEN mapping[key] ELSE None

\* dict.get(key, '') on a mapping entry
GetOr(mapping, key, default) == IF key \in DOMAIN mapping THEN mapping[key] ELSE default

(***************************************************************************)
(* SQLGenerator                                                            *)
(***************************************************************************)
\* what an f-string writes for a value
Fmt(x) == IF x.t = "NoneType" THEN Word("None") ELSE x.v

\* Python's `a or b`
Or(a, b) == IF Truthy(a) THEN a ELSE b

RECURSIVE Split(_, _)
\* text.split(): the pieces between runs of whitespace (cur: the piece being read)
Split(s, cur) ==
  IF s = <<>> THEN (IF cur = <<>> THEN <<>> ELSE <<cur>>)
  ELSE IF Head(s) \in Whitespace
       THEN (IF cur = <<>> THEN <<>> ELSE <<cur>>) \o Split(Tail(s), <<>>)
       ELSE Split(Tail(s), Append(cur, Head(s)))

RECURSIVE Join(_, _)
\* sep.join(items)
Join(items, sep) ==
  IF items = <<>> THEN <<>>
  ELSE IF Len(items) = 1 THEN items[1]
  ELSE items[1] \o sep \o Join(Tail(items), sep)

\* SQLGenerator._clean_transformation on a str
_clean_transformation(transformation) ==
  IF transformation = <<>> THEN <<>> ELSE Join(Split(transformation, <<>>), <<" ">>)

\* the mapping makes line 61 raise AttributeError: a truthy value without .strip()
StripRaises(mapping) ==
  /\ Truthy(Get(mapping, TARGET_COLUMN))
  /\ Truthy(Get(mapping, TRANSFORMATION))
  /\ Get(mapping, TRANSFORMATION).t # "str"

\* SelectItem taking the direct mapping whenever there is a source column
SelectItem_SourceFirst(mapping, source_table) ==
  LET target_col == Get(mapping, TARGET_COLUMN)
      source_col == Get(mapping, SOURCE_COLUMN)
      transformation == Get(mapping, TRANSFORMATION)
  IN  IF ~Truthy(target_col) THEN <<>>
      ELSE IF Truthy(source_col)
           THEN <<"    ">> \o source_table \o <<".">> \o Fmt(source_col) \o
                <<" AS ">> \o Fmt(target_col)
      ELSE IF Truthy(transformation) /\ Strip(transformation.v) # <<>>
           THEN <<"    ">> \o _clean_transformation(transformation.v) \o
                <<" AS ">> \o Fmt(target_col)
      ELSE <<"    NULL AS ">> \o Fmt(target_col)

\* one item of the SELECT list, <<>> for a mapping that is skipped
SelectItem(mapping, source_table) ==
  LET target_col == Get(mapping, TARGET_COLUMN)
      source_col == Get(mapping, SOURCE_COLUMN)
      transformation == Get(mapping, TRANSFORMATION)
  IN  IF ~Truthy(target_col) THEN <<>>
      ELSE IF Truthy(transformation) /\ Strip(transformation.v) # <<>>
           THEN <<"    ">> \o _clean_transformation(transformation.v) \o
                <<" AS ">> \o Fmt(target_col)
      ELSE IF Truthy(source_col)
           THEN <<"    ">> \o source_table \o <<".">> \o Fmt(source_col) \o
                <<" AS ">> \o Fmt(target_col)
      ELSE <<"    NULL AS ">> \o Fmt(target_col)

\* SQLGenerator._build_select_clause
_build_select_clause(ms, source_table, target_table) ==
  IF \E i \in DOMAIN ms : StripRaises(ms[i])
  THEN [raised |-> TRUE, text |-> <<>>]
  ELSE [raised |-> FALSE,
        text |-> Join(SelectSeq([i \in DOMAIN ms |-> SelectItem(ms[i], source_table)],
                                LAMBDA item : item # <<>>),
                      <<",\n">>)]

\* _get_join_keys taking a true notes cell for a key mark as well
_get_join_keys_NotesMark(ms) ==
  LET key_col(m) == Or(Get(m, TARGET_COLUMN), Get(m, SOURCE_COLUMN))
      marked == SelectSeq(ms, LAMBDA m :
                  /\ Truthy(Or(Or(Get(m, IS_KEY), Get(m, Word("join_key"))), Get(m, NOTES)))
                  /\ Truthy(key_col(m)))
      join_keys == [i \in DOMAIN marked |-> key_col(marked[i])]
  IN  IF join_keys = <<>> /\ ms # <<>> /\ Truthy(key_col(ms[1]))
      THEN <<key_col(ms[1])>>
      ELSE join_keys

\* SQLGenerator._get_join_keys
_get_join_keys(ms) ==
  LET key_col(m) == Or(Get(m, TARGET_COLUMN), Get(m, SOURCE_COLUMN))
      marked == SelectSeq(ms, LAMBDA m :
                  /\ Truthy(Or(Get(m, IS_KEY), Get(m, Word("join_key"))))
                  /\ Truthy(key_col(m)))
      join_keys == [i \in DOMAIN marked |-> key_col(marked[i])]
  IN  IF join_keys = <<>> /\ ms # <<>> /\ Truthy(key_col(ms[1]))
      THEN <<key_col(ms[1])>>
      ELSE join_keys

\* _generate_join_condition writing the equality of the first key only
_generate_join_condition_FirstKeyOnly(alias1, alias2, keys) ==
  IF keys = <<>> THEN <<"1=1">>
  ELSE <<alias1, ".">> \o Fmt(keys[1]) \o <<" = ", alias2, ".">> \o Fmt(keys[1])

\* SQLGenerator._generate_join_condition
_generate_join_condition(alias1, alias2, keys) ==
  IF keys = <<>> THEN <<"1=1">>
  ELSE Join([i \in DOMAIN keys |->
               <<alias1, ".">> \o Fmt(keys[i]) \o <<" = ", alias2, ".">> \o Fmt(keys[i])],
            <<" AND ">>)

\* FullName testing `schema is not None` instead of the truth value of schema
FullName_NoneOnly(schema, table) ==
  IF schema.t # "NoneType" THEN Fmt(schema) \o <<".">> \o table ELSE table

\* f"{schema}.{table}" if schema else table
FullName(schema, table) ==
  IF Truthy(schema) THEN Fmt(schema) \o <<".">> \o table ELSE table

\* the part of both query texts from the WITH clause to the LIMIT line
QueryBody(select_clause, source_full, source_table, target_full, label, first, second) ==
  <<"WITH source_transformed AS (\n", "  SELECT\n">> \o select_clause \o <<"\n">> \o
  <<"  FROM ">> \o source_full \o <<" ">> \o source_table \o <<"\n">> \o
  <<"),\n", "target_data AS (\n", "  SELECT *\n">> \o
  <<"  FROM ">> \o target_full \o <<"\n">> \o
  <<")\n", "SELECT \n", "  '", label, "' AS validation_type,\n",
    "  COUNT(*) AS record_count\n", "FROM (\n",
    "  SELECT * FROM ", first, "\n", "  EXCEPT\n", "  SELECT * FROM ", second, "\n",
    ") diff\n", "UNION ALL\n", "SELECT \n", "  'DETAIL' AS validation_type,\n",
    "  NULL AS record_count\n", "FROM (\n",
    "  SELECT * FROM ", first, "\n", "  EXCEPT\n", "  SELECT * FROM ", second, "\n",
    ") diff\n", "LIMIT 100;  -- Show first 100 discrepancies\n", "\n">>

\* the commented LEFT JOIN alternative that ends both query texts
Fallback(a, b, issue, from, join, join_keys) ==
  <<"-- Alternative using LEFT JOIN for databases that don't support EXCEPT:\n",
    "/*\n", "SELECT \n", "  ", a, ".*,\n", "  '", issue, "' AS issue\n",
    "FROM ", from, " ", a, "\n", "LEFT JOIN ", join, " ", b, "\n", "  ON ">> \o
  _generate_join_condition(a, b, join_keys) \o <<"\n">> \o
  <<"WHERE ", b, ".">> \o
  (IF join_keys # <<>> THEN Fmt(join_keys[1]) ELSE <<"id">>) \o
  <<" IS NULL;\n", "*/\n">>

\* SQLGenerator.generate_source_minus_target on the generator's mappings ms
generate_source_minus_target(ms, source_table, target_table, source_schema, target_schema) ==
  LET source_full == FullName(source_schema, source_table)
      target_full == FullName(target_schema, target_table)
      select_clause == _build_select_clause(ms, source_table, target_table)
      join_keys == _get_join_keys(ms)
  IN  IF select_clause.raised THEN [raised |-> TRUE, text |-> <<>>]
      ELSE [raised |-> FALSE,
            text |->
              <<"-- Source MINUS Target Validation Query\n",
                "-- This query shows records that exist in source but not in target after transformation\n",
                "\n">> \o
              QueryBody(select_clause.text, source_full, source_table, target_full,
                        "SOURCE_MINUS_TARGET", "source_transformed", "target_data") \o
              Fallback("s", "t", "Missing in Target", "source_transformed", "target_data",
                       join_keys)]

\* generate_target_minus_source qualifying the target table with the source schema
generate_target_minus_source_SchemaCopied(ms, source_table, target_table, source_schema, target_schema) ==
  LET source_full == FullName(source_schema, source_table)
      target_full == FullName(source_schema, target_table)
      select_clause == _build_select_clause(ms, source_table, target_table)
      join_keys == _get_join_keys(ms)
  IN  IF select_clause.raised THEN [raised |-> TRUE, text |-> <<>>]
      ELSE [raised |-> FALSE,
            text |->
              <<"-- Target MINUS Source Validation Query\n",
                "-- This query shows records that exist in target but not in transformed source\n",
                "\n">> \o
              QueryBody(select_clause.text, source_full, source_table, target_full,
                        "TARGET_MINUS_SOURCE", "target_data", "source_transformed") \o
              Fallback("t", "s", "Missing in Source", "target_data", "source_transformed",
                       join_keys)]

\* generate_target_minus_source with the EXCEPT operands left in the order of the
\* source-minus-target query
generate_target_minus_source_OperandsKept(ms, source_table, target_table, source_schema, target_schema) ==
  LET source_full == FullName(source_schema, source_table)
      target_full == FullName(target_schema, target_table)
      select_clause == _build_select_clause(ms, source_table, target_table)
      join_keys == _get_join_keys(ms)
  IN  IF select_clause.raised THEN [raised |-> TRUE, text |-> <<>>]
      ELSE [raised |-> FALSE,
            text |->
              <<"-- Target MINUS Source Validation Query\n",
                "-- This query shows records that exist in target but not in transformed source\n",
                "\n">> \o
              QueryBody(select_clause.text, source_full, source_table, target_full,
                        "TARGET_MINUS_SOURCE", "source_transformed", "target_data") \o
              Fallback("t", "s", "Missing in Source", "target_data", "source_transformed",
                       join_keys)]

\* SQLGenerator.generate_target_minus_source on the generator's mappings ms
generate_target_minus_source(ms, source_table, target_table, source_schema, target_schema) ==
  LET source_full == FullName(source_schema, source_table)
      target_full == FullName(target_schema, target_table)
      select_clause == _build_select_clause(ms, source_table, target_table)
      join_keys == _get_join_keys(ms)
  IN  IF select_clause.raised THEN [raised |-> TRUE, text |-> <<>>]
      ELSE [raised |-> FALSE,
            text |->
              <<"-- Target MINUS Source Validation Query\n",
                "-- This query shows records that exist in target but not in transformed source\n",
                "\n">> \o
              QueryBody(select_clause.text, source_full, source_table, target_full,
                        "TARGET_MINUS_SOURCE", "target_data", "source_transformed") \o
              Fallback("t", "s", "Missing in Source", "target_data", "source_transformed",
                       join_keys)]

\* generate_complete_validation calling both generators without the schema arguments
generate_complete_validation_SchemasDropped(ms, source_table, target_table, source_schema, target_schema) ==
  LET source_minus_target ==
        generate_source_minus_target(ms, source_table, target_table, None, None)
      target_minus_source ==
        generate_target_minus_source(ms, source_table, target_table, None, None)
  IN  IF source_minus_target.raised \/ target_minus_source.raised
      THEN [raised |-> TRUE, text |-> <<>>]
      ELSE [raised |-> FALSE,
            text |->
              <<"-- Complete Bidirectional Validation Query\n",
                "-- Generated from ETL Mapping Document\n", "\n">> \o
              source_minus_target.text \o
              <<"\n", "\n", "-- ========================================\n", "\n">> \o
              target_minus_source.text \o <<"\n">>]

\* SQLGenerator.generate_complete_validation on the generator's mappings ms
generate_complete_validation(ms, source_table, target_table, source_schema, target_schema) ==
  LET source_minus_target ==
        generate_source_minus_target(ms, source_table, target_table, source_schema, target_schema)
      target_minus_source ==
        generate_target_minus_source(ms, source_table, target_table, source_schema, target_schema)
  IN  IF source_minus_target.raised \/ target_minus_source.raised
      THEN [raised |-> TRUE, text |-> <<>>]
      ELSE [raised |-> FALSE,
            text |->
              <<"-- Complete Bidirectional Validation Query\n",
                "-- Generated from ETL Mapping Document\n", "\n">> \o
              source_minus_target.text \o
              <<"\n", "\n", "-- ========================================\n", "\n">> \o
              target_minus_source.text \o <<"\n">>]

(***************************************************************************)
(* MappingParser: derived facts                                            *)
(***************************************************************************)
Punctuation == {".", "(", ")", ",", "'", "-", "=", "*", ">"}

\* a lexeme matched by \w+
IsWord(l) == l \notin Whitespace \cup Punctuation

\* FindTables with re.search in place of re.findall: the first match only
FindTables_FirstOnly(text) ==
  LET at == {k \in DOMAIN text : k < Len(text) /\ IsWord(text[k]) /\ text[k + 1] = "."}
  IN  {text[i] : i \in {k \in at : \A j \in at : k <= j}}

\* re.findall(r'(\w+)\.', text)
FindTables(text) ==
  {text[i] : i \in {k \in DOMAIN text : k < Len(text) /\ IsWord(text[k]) /\ text[k + 1] = "."}}

RECURSIVE SortedValues(_)
\* sorted(S) for a set S of values of one type
SortedValues(S) ==
  IF S = {} THEN <<>>
  ELSE LET m == CHOOSE x \in S : \A y \in S \ {x} : TextLess(x.v, y.v)
       IN  <<m>> \o SortedValues(S \ {m})

\* MappingParser.get_source_columns
get_source_columns(ms) ==
  SortedValues({Get(ms[i], SOURCE_COLUMN) :
                  i \in {k \in DOMAIN ms : Truthy(Get(ms[k], SOURCE_COLUMN))}})

\* MappingParser.get_target_columns
get_target_columns(ms) ==
  SortedValues({Get(ms[i], TARGET_COLUMN) :
                  i \in {k \in DOMAIN ms : Truthy(Get(ms[k], TARGET_COLUMN))}})

\* get_transformations keeping the first transformation met for a target column
get_transformations_FirstWins(ms) ==
  LET both == {k \in DOMAIN ms : /\ Truthy(Get(ms[k], TARGET_COLUMN))
                                 /\ Truthy(Get(ms[k], TRANSFORMATION))}
      firstOf(target) == CHOOSE k \in both :
                           /\ Get(ms[k], TARGET_COLUMN) = target
                           /\ \A j \in both : Get(ms[j], TARGET_COLUMN) = target => k <= j
  IN  [target \in {Get(ms[k], TARGET_COLUMN) : k \in both} |->
         Get(ms[firstOf(target)], TRANSFORMATION)]

\* MappingParser.get_transformations
get_transformations(ms) ==
  LET both == {k \in DOMAIN ms : /\ Truthy(Get(ms[k], TARGET_COLUMN))
                                 /\ Truthy(Get(ms[k], TRANSFORMATION))}
      lastOf(target) == CHOOSE k \in both :
                          /\ Get(ms[k], TARGET_COLUMN) = target
                          /\ \A j \in both : Get(ms[j], TARGET_COLUMN) = target => j <= k
  IN  [target \in {Get(ms[k], TARGET_COLUMN) : k \in both} |->
         Get(ms[lastOf(target)], TRANSFORMATION)]

\* MappingParser.extract_source_tables
extract_source_tables(ms) ==
  LET transformation(k) == GetOr(ms[k], TRANSFORMATION, StrVal(<<>>))
      scanned == {k \in DOMAIN ms : Truthy(transformation(k)) /\ transformation(k).t = "str"}
  IN  SortedSeq({Word(w) : w \in UNION {FindTables(transformation(k).v) : k \in scanned}})

(***************************************************************************)
(* ETLValidator                                                            *)
(***************************************************************************)
NoGenerator == [is_none |-> TRUE, mappings |-> <<>>]

\* SQLGenerator(mappings)
SQLGenerator(ms) == [is_none |-> FALSE, mappings |-> ms]

Returned(op, args, value) ==
  [op |-> op, args |-> args, status |-> "returned", error |-> NoError, value |-> value]

Raised(op, args, error) ==
  [op |-> op, args |-> args, status |-> "raised", error |-> error, value |-> <<>>]

\* no result kept, no call in flight
NoCall == [op |-> "", args |-> <<>>, status |-> "", error |-> NoError, value |-> <<>>]
NoCalls == <<>>

\* shares.json as SQLPlayground.__init__ writes it: json.dump({}, f)
NoSharesFile == [parses |-> TRUE, shares |-> <<>>]

\* arguments of generate_validation_queries
SourceTables == {Word("orders")}
TargetTables == {Word("orders_tgt")}
Schemas == {None, StrVal(Word("s1"))}
QueryTypes == {"both", "source_minus_target", "target_minus_source", "complete"}

GenerateArgs ==
  [source_table : SourceTables, target_table : TargetTables,
   source_schema : Schemas, target_schema : Schemas, query_type : QueryTypes]

\* QueryKeys taking every query_type it does not know for both
QueryKeys_UnknownAsBoth(query_type) ==
  (IF query_type # "target_minus_source" THEN {"source_minus_target"} ELSE {}) \cup
  (IF query_type # "source_minus_target" THEN {"target_minus_source"} ELSE {}) \cup
  (IF query_type \notin {"source_minus_target", "target_minus_source"} THEN {"complete"} ELSE {})

\* the keys generate_validation_queries fills for a query_type
QueryKeys(query_type) ==
  (IF query_type \in {"both", "source_minus_target"} THEN {"source_minus_target"} ELSE {}) \cup
  (IF query_type \in {"both", "target_minus_source"} THEN {"target_minus_source"} ELSE {}) \cup
  (IF query_type = "both" THEN {"complete"} ELSE {})

\* the generator call behind one key of the result
QueryFor(key, ms, a) ==
  CASE key = "source_minus_target" ->
         generate_source_minus_target(ms, a.source_table, a.target_table,
                                      a.source_schema, a.target_schema)
    [] key = "target_minus_source" ->
         generate_target_minus_source(ms, a.source_table, a.target_table,
                                      a.source_schema, a.target_schema)
    [] key = "complete" ->
         generate_complete_validation(ms, a.source_table, a.target_table,
                                      a.source_schema, a.target_schema)

\* LoadedState when load_mappings drops the old generator before it parses
LoadedState_ResetFirst(r) ==
  IF r.ok
  THEN [mappings |-> r.mappings, parser_mappings |-> r.mappings,
        generator |-> SQLGenerator(r.mappings)]
  ELSE [mappings |-> mappings, parser_mappings |-> parser_mappings, generator |-> NoGenerator]

\* LoadedState when parse() empties the parser's list before it reads the file
LoadedState_ParserCleared(r) ==
  IF r.ok
  THEN [mappings |-> r.mappings, parser_mappings |-> r.mappings,
        generator |-> SQLGenerator(r.mappings)]
  ELSE [mappings |-> mappings, parser_mappings |-> <<>>, generator |-> generator]

\* LoadedState with line 28 run only while there is no generator yet
LoadedState_GeneratorKept(r) ==
  IF r.ok
  THEN [mappings |-> r.mappings, parser_mappings |-> r.mappings,
        generator |-> IF generator.is_none THEN SQLGenerator(r.mappings) ELSE generator]
  ELSE [mappings |-> mappings, parser_mappings |-> parser_mappings, generator |-> generator]

\* the state of the orchestrator after load_mappings got result r from parser.parse()
LoadedState(r) ==
  IF r.ok
  THEN [mappings |-> r.mappings, parser_mappings |-> r.mappings,
        generator |-> SQLGenerator(r.mappings)]
  ELSE [mappings |-> mappings, parser_mappings |-> parser_mappings, generator |-> generator]

\* history of the load_mappings calls: "none", "failed_only" (every call so far failed),
\* "succeeded" (the last call succeeded), "failed_after_success"
HistoryAfter(h, ok) ==
  IF ok THEN "succeeded"
  ELSE IF h \in {"succeeded", "failed_after_success"} THEN "failed_after_success"
  ELSE "failed_only"

\* ETLValidator.load_mappings, r being what self.parser.parse() does on the file
load_mappings(r) ==
  LET after == LoadedState(r)
  IN  /\ mappings' = after.mappings
      /\ parser_mappings' = after.parser_mappings
      /\ generator' = after.generator
      /\ last' = IF r.ok THEN Returned("load_mappings", <<>>, <<>>)
                 ELSE Raised("load_mappings", <<>>, r.error)
      /\ load_history' = HistoryAfter(load_history, r.ok)
      /\ UNCHANGED <<required_order, input, earlier, calls, shares_file>>

\* GenerateOutcome with the test of line 49 made only where a generator is needed
GenerateOutcome_LateCheck(gen, a) ==
  LET keys == QueryKeys(a.query_type)
  IN  IF keys = {} THEN Returned("generate_validation_queries", a, <<>>)
      ELSE IF gen.is_none
      THEN Raised("generate_validation_queries", a, Error("mappings_not_loaded", <<>>, <<>>, 0))
      ELSE LET queries == [k \in keys |-> QueryFor(k, gen.mappings, a)]
           IN  IF \E k \in keys : queries[k].raised
               THEN Raised("generate_validation_queries", a,
                           Error("attribute_error", <<>>, <<>>, 0))
               ELSE Returned("generate_validation_queries", a,
                             [k \in keys |-> queries[k].text])

\* GenerateOutcome answering from the previous call's map when the query_type is the same
GenerateOutcome_Memoized(gen, a) ==
  IF gen.is_none
  THEN Raised("generate_validation_queries", a, Error("mappings_not_loaded", <<>>, <<>>, 0))
  ELSE IF /\ last.op = "generate_validation_queries" /\ last.status = "returned"
          /\ last.args.query_type = a.query_type
       THEN Returned("generate_validation_queries", a, last.value)
  ELSE LET keys == QueryKeys(a.query_type)
           queries == [k \in keys |-> QueryFor(k, gen.mappings, a)]
       IN  IF \E k \in keys : queries[k].raised
           THEN Raised("generate_validation_queries", a,
                       Error("attribute_error", <<>>, <<>>, 0))
           ELSE Returned("generate_validation_queries", a,
                         [k \in keys |-> queries[k].text])

\* the outcome of ETLValidator.generate_validation_queries with arguments a
GenerateOutcome(gen, a) ==
  IF gen.is_none
  THEN Raised("generate_validation_queries", a, Error("mappings_not_loaded", <<>>, <<>>, 0))
  ELSE LET keys == QueryKeys(a.query_type)
           queries == [k \in keys |-> QueryFor(k, gen.mappings, a)]
       IN  IF \E k \in keys : queries[k].raised
           THEN Raised("generate_validation_queries", a,
                       Error("attribute_error", <<>>, <<>>, 0))
           ELSE Returned("generate_validation_queries", a,
                         [k \in keys |-> queries[k].text])

\* ETLValidator.generate_validation_queries
generate_validation_queries(a) ==
  /\ last' = GenerateOutcome(generator, a)
  /\ UNCHANGED <<mappings, parser_mappings, generator, required_order, input, load_history,
               earlier, calls, shares_file>>

\* SummaryValue without the test of line 78
SummaryValue_Unguarded(ms, parsed) ==
  [total_mappings |-> Len(ms),
   source_columns |-> get_source_columns(parsed),
   target_columns |-> get_target_columns(parsed),
   transformations |-> get_transformations(parsed),
   detected_source_tables |-> extract_source_tables(parsed)]

\* the value ETLValidator.get_mapping_summary returns
SummaryValue(ms, parsed) ==
  IF ms = <<>> THEN <<>>
  ELSE [total_mappings |-> Len(ms),
        source_columns |-> get_source_columns(parsed),
        target_columns |-> get_target_columns(parsed),
        transformations |-> get_transformations(parsed),
        detected_source_tables |-> extract_source_tables(parsed)]

\* get_mapping_summary raising the error of line 50 while there is no generator
get_mapping_summary_RaisesUnloaded ==
  /\ last' = IF generator.is_none
             THEN Raised("get_mapping_summary", <<>>,
                         Error("mappings_not_loaded", <<>>, <<>>, 0))
             ELSE Returned("get_mapping_summary", <<>>,
                           SummaryValue(mappings, parser_mappings))
  /\ UNCHANGED <<mappings, parser_mappings, generator, required_order, input, load_history,
                 earlier, calls, shares_file>>

\* ETLValidator.get_mapping_summary
get_mapping_summary ==
  /\ last' = Returned("get_mapping_summary", <<>>, SummaryValue(mappings, parser_mappings))
  /\ UNCHANGED <<mappings, parser_mappings, generator, required_order, input, load_history,
               earlier, calls, shares_file>>

\* ETLValidator.__init__, in a process with some iteration order of REQUIRED_COLUMNS
Init ==
  /\ mappings = <<>>
  /\ parser_mappings = <<>>
  /\ generator = NoGenerator
  /\ required_order \in SetOrders
  /\ input = NoInput
  /\ last = Returned("__init__", <<>>, <<>>)
  /\ load_history = "none"
  /\ earlier = NoCall
  /\ calls = NoCalls
  /\ shares_file = NoSharesFile

\* what parser.parse() does, over all files and all iteration orders: <<order, outcome>>
ParseOutcomes == {<<o, parse(file, o)>> : o \in SetOrders, file \in Files}

\* load_mappings on some file: \E file \in Files : load_mappings(parse(file, required_order))
Load == \E p \in ParseOutcomes : p[1] = required_order /\ load_mappings(p[2])

Generate == \E a \in GenerateArgs : generate_validation_queries(a)

Summary == get_mapping_summary

Next == Load \/ Generate \/ Summary

\* an orchestrator whose mapping file changes between the calls
Spec == Init /\ [][Next]_vars

\* an orchestrator over one mapping file
InitFile ==
  /\ mappings = <<>>
  /\ parser_mappings = <<>>
  /\ generator = NoGenerator
  /\ required_order \in SetOrders
  /\ input \in Files
  /\ last = Returned("__init__", <<>>, <<>>)
  /\ load_history = "none"
  /\ earlier = NoCall
  /\ calls = NoCalls
  /\ shares_file = NoSharesFile

LoadInput == load_mappings(parse(input, required_order))

NextFile == LoadInput \/ Generate \/ Summary

SpecFile == InitFile /\ [][NextFile]_vars

\* the MappingSets successful loads produce
LoadedMappings == {p[2].mappings : p \in {q \in ParseOutcomes : q[2].ok}}

\* the orchestrator right after load_mappings returned ms (the iteration order of
\* REQUIRED_COLUMNS plays no part once validate_format has passed)
Loaded(ms) ==
  /\ mappings = ms
  /\ parser_mappings = ms
  /\ generator = SQLGenerator(ms)
  /\ required_order = <<SOURCE_COLUMN, TARGET_COLUMN, TRANSFORMATION>>
  /\ input = NoInput
  /\ last = Returned("load_mappings", <<>>, <<>>)
  /\ load_history = "succeeded"

\* a caller of a Loaded orchestrator that keeps the outcome of one call
InitRepeat ==
  /\ \E ms \in LoadedMappings : Loaded(ms)
  /\ earlier = NoCall
  /\ calls = NoCalls
  /\ shares_file = NoSharesFile

\* first = validator.generate_validation_queries(...)
KeepResult ==
  /\ last.op = "generate_validation_queries"
  /\ earlier = NoCall
  /\ earlier' = last
  /\ UNCHANGED <<mappings, parser_mappings, generator, required_order, input, last,
                 load_history, calls, shares_file>>

NextRepeat == Generate \/ Summary \/ KeepResult

SpecRepeat == InitRepeat /\ [][NextRepeat]_vars

(***************************************************************************)
(* A SQLGenerator on its own                                               *)
(***************************************************************************)
\* mapping entries written by hand, the way test_transformations builds its list
EntryKeyed ==
  (SOURCE_COLUMN :> StrVal(Word("customer_id"))) @@ (TARGET_COLUMN :> StrVal(Word("cust_id"))) @@
  (TRANSFORMATION :> StrVal(<<"customers", ".", "customer_id">>)) @@
  (IS_KEY :> BoolVal(Word("True")))
EntryDirect ==
  (SOURCE_COLUMN :> StrVal(Word("amount"))) @@ (TARGET_COLUMN :> StrVal(Word("total"))) @@
  (TRANSFORMATION :> None)
EntryBlankTransformation ==
  (SOURCE_COLUMN :> StrVal(Word("name"))) @@ (TARGET_COLUMN :> StrVal(Word("name"))) @@
  (TRANSFORMATION :> StrVal(<<" ", "\t">>))
EntryZeroTransformation ==
  (SOURCE_COLUMN :> StrVal(Word("amount"))) @@ (TARGET_COLUMN :> StrVal(Word("amount"))) @@
  (TRANSFORMATION :> IntVal(Word("0")))
EntryNoSource ==
  (TARGET_COLUMN :> StrVal(Word("total"))) @@ (TRANSFORMATION :> StrVal(<<>>))
EntryNoTarget ==
  (SOURCE_COLUMN :> StrVal(Word("name"))) @@ (TARGET_COLUMN :> None) @@
  (TRANSFORMATION :> StrVal(<<"UPPER", "(", "customers", ".", "name", ")">>))

EntryPool ==
  {EntryKeyed, EntryDirect, EntryBlankTransformation, EntryZeroTransformation,
   EntryNoSource, EntryNoTarget}

\* the lists a caller hands to SQLGenerator(mappings) directly
DirectMappings == UNION {[1..n -> EntryPool] : n \in 1..MaxRows}

GeneratorMappings == LoadedMappings \cup DirectMappings

\* arguments of the three generate_* methods
SchemaArgs == {None, StrVal(<<>>), StrVal(Word("s1"))}

GeneratorArgs ==
  [source_table : {Word("orders")}, target_table : {Word("orders"), Word("orders_tgt")},
   source_schema : SchemaArgs, target_schema : SchemaArgs]

GeneratorOps ==
  {"generate_source_minus_target", "generate_target_minus_source",
   "generate_complete_validation"}

\* the outcome of one generate_* call on a generator with mappings ms
GeneratorOutcome(op, ms, a) ==
  LET query == CASE op = "generate_source_minus_target" -> QueryFor("source_minus_target", ms, a)
                 [] op = "generate_target_minus_source" -> QueryFor("target_minus_source", ms, a)
                 [] op = "generate_complete_validation" -> QueryFor("complete", ms, a)
  IN  IF query.raised THEN Raised(op, a, Error("attribute_error", <<>>, <<>>, 0))
      ELSE Returned(op, a, query.text)

\* generator = SQLGenerator(mappings)
InitGenerator ==
  /\ generator \in {SQLGenerator(ms) : ms \in GeneratorMappings}
  /\ mappings = <<>>
  /\ parser_mappings = <<>>
  /\ required_order = <<SOURCE_COLUMN, TARGET_COLUMN, TRANSFORMATION>>
  /\ input = NoInput
  /\ last = Returned("__init__", <<>>, <<>>)
  /\ load_history = "none"
  /\ earlier = NoCall
  /\ calls = NoCalls
  /\ shares_file = NoSharesFile

\* one call on the generator just built: the methods assign no attribute, so a call
\* made after other calls finds the generator as it was built
CallGenerator(op) ==
  /\ last.op = "__init__"
  /\ \E a \in GeneratorArgs : last' = GeneratorOutcome(op, generator.mappings, a)
  /\ UNCHANGED <<mappings, parser_mappings, generator, required_order, input, load_history,
                 earlier, calls, shares_file>>

SourceMinusTarget == CallGenerator("generate_source_minus_target")

TargetMinusSource == CallGenerator("generate_target_minus_source")

CompleteValidation == CallGenerator("generate_complete_validation")

NextGenerator == SourceMinusTarget \/ TargetMinusSource \/ CompleteValidation

SpecGenerator == InitGenerator /\ [][NextGenerator]_vars

(***************************************************************************)
(* Concurrent callers of one Loaded orchestrator                           *)
(***************************************************************************)
Threads == {"t1", "t2"}

\* a thread that has made no call yet
Idle == [op |-> "", args |-> <<>>, pc |-> "idle", locals |-> <<>>, result |-> NoCall]

\* a thread entering a method: pc is the line it executes next, locals its own dict
Entered(op, args, pc) ==
  [op |-> op, args |-> args, pc |-> pc, locals |-> <<>>, result |-> NoCall]

\* a thread whose call has returned or raised
Done(call, result) == [call EXCEPT !.pc = "done", !.result = result]

ConcurrentArgs ==
  {a \in GenerateArgs :
     a.target_schema = None /\ a.query_type \in {"both", "source_minus_target"}}

\* line 69 with the dict of line 52 kept in an attribute of the orchestrator: the calls
\* in flight write their queries into one dict
ReturnedQueries_SharedDict(cs, t) ==
  LET others == {u \in DOMAIN cs : u # t /\ cs[u].op = "generate_validation_queries"}
      keys == DOMAIN cs[t].locals \cup UNION {DOMAIN cs[u].locals : u \in others}
  IN  [k \in keys |->
         IF \E u \in others : k \in DOMAIN cs[u].locals
         THEN cs[CHOOSE u \in others : k \in DOMAIN cs[u].locals].locals[k]
         ELSE cs[t].locals[k]]

\* line 69: `return queries`, queries being the dict this call made at line 52
ReturnedQueries(cs, t) == cs[t].locals

\* the query lines 54-67 store at pc, and the line that follows
KeyAt(pc) ==
  CASE pc = "line54" -> "source_minus_target"
    [] pc = "line59" -> "target_minus_source"
    [] pc = "line64" -> "complete"

AfterLine(pc) ==
  CASE pc = "line54" -> "line59"
    [] pc = "line59" -> "line64"
    [] pc = "line64" -> "line69"

BeginGenerate(t) ==
  /\ calls[t].pc = "idle"
  /\ \E a \in ConcurrentArgs :
       calls' = [calls EXCEPT ![t] = Entered("generate_validation_queries", a, "line49")]
  /\ UNCHANGED <<mappings, parser_mappings, generator, required_order, input, last,
                 load_history, earlier, shares_file>>

BeginSummary(t) ==
  /\ calls[t].pc = "idle"
  /\ calls' = [calls EXCEPT ![t] = Entered("get_mapping_summary", <<>>, "line78")]
  /\ UNCHANGED <<mappings, parser_mappings, generator, required_order, input, last,
                 load_history, earlier, shares_file>>

\* one statement of generate_validation_queries in thread t
GenerateStep(t) ==
  LET c == calls[t]
      op == "generate_validation_queries"
  IN  /\ c.op = op /\ c.pc \notin {"idle", "done"}
      /\ calls' = [calls EXCEPT ![t] =
           IF c.pc = "line49"
           THEN IF generator.is_none
                THEN Done(c, Raised(op, c.args, Error("mappings_not_loaded", <<>>, <<>>, 0)))
                ELSE [c EXCEPT !.pc = "line54"]
           ELSE IF c.pc = "line69"
           THEN Done(c, Returned(op, c.args, ReturnedQueries(calls, t)))
           ELSE IF KeyAt(c.pc) \notin QueryKeys(c.args.query_type)
           THEN [c EXCEPT !.pc = AfterLine(c.pc)]
           ELSE LET query == QueryFor(KeyAt(c.pc), generator.mappings, c.args)
                IN  IF query.raised
                    THEN Done(c, Raised(op, c.args, Error("attribute_error", <<>>, <<>>, 0)))
                    ELSE [c EXCEPT !.pc = AfterLine(c.pc),
                                   !.locals = (KeyAt(c.pc) :> query.text) @@ c.locals]]
      /\ UNCHANGED <<mappings, parser_mappings, generator, required_order, input, last,
                     load_history, earlier, shares_file>>

\* one statement of get_mapping_summary in thread t
SummaryStep(t) ==
  LET c == calls[t]
      op == "get_mapping_summary"
      with(key, value, pc) == [c EXCEPT !.pc = pc, !.locals = (key :> value) @@ c.locals]
  IN  /\ c.op = op /\ c.pc \notin {"idle", "done"}
      /\ calls' = [calls EXCEPT ![t] =
           CASE c.pc = "line78" ->
                  IF mappings = <<>> THEN Done(c, Returned(op, <<>>, <<>>))
                  ELSE [c EXCEPT !.pc = "line82"]
             [] c.pc = "line82" ->
                  with("detected_source_tables", extract_source_tables(parser_mappings), "line85")
             [] c.pc = "line85" -> with("total_mappings", Len(mappings), "line86")
             [] c.pc = "line86" ->
                  with("source_columns", get_source_columns(parser_mappings), "line87")
             [] c.pc = "line87" ->
                  with("target_columns", get_target_columns(parser_mappings), "line88")
             [] c.pc = "line88" ->
                  with("transformations", get_transformations(parser_mappings), "line90")
             [] c.pc = "line90" -> Done(c, Returned(op, <<>>, c.locals))]
      /\ UNCHANGED <<mappings, parser_mappings, generator, required_order, input, last,
                     load_history, earlier, shares_file>>

\* threads about to call into an orchestrator that load_mappings has loaded
InitConcurrent ==
  /\ \E ms \in LoadedMappings : Loaded(ms)
  /\ earlier = NoCall
  /\ calls = [t \in Threads |-> Idle]
  /\ shares_file = NoSharesFile

NextConcurrent ==
  \E t \in Threads : BeginGenerate(t) \/ BeginSummary(t) \/ GenerateStep(t) \/ SummaryStep(t)

SpecConcurrent == InitConcurrent /\ [][NextConcurrent]_vars

(***************************************************************************)
(* The derived views of a loaded MappingParser                             *)
(***************************************************************************)
\* rows whose transformations name tables
RowOrdersId ==
  (SOURCE_COLUMN :> Word("customer_id")) @@ (TARGET_COLUMN :> Word("cust_id")) @@
  (TRANSFORMATION :> <<"orders", ".", "id">>) @@
  (IS_KEY :> Word("TRUE")) @@ (NOTES :> <<>>)
RowConcat ==
  (SOURCE_COLUMN :> Word("name")) @@ (TARGET_COLUMN :> Word("name")) @@
  (TRANSFORMATION :>
     <<"CONCAT", "(", "orders", ".", "a", ",", " ", "customers", ".", "b", ")">>) @@
  (IS_KEY :> <<>>) @@ (NOTES :> <<>>)
RowQualified ==
  (SOURCE_COLUMN :> Word("amount")) @@ (TARGET_COLUMN :> Word("cust_id")) @@
  (TRANSFORMATION :> <<"s1", ".", "orders", ".", "amount">>) @@
  (IS_KEY :> Word("FALSE")) @@ (NOTES :> <<>>)

ViewRowPool == {RowOrdersId, RowConcat, RowQualified, RowFull, RowConst}

\* mapping files that pass validate_format
ViewFiles ==
  {[header |-> HdrKeyed, rows |-> [i \in DOMAIN rs |-> Line(HdrKeyed, rs[i])]] :
     rs \in UNION {[1..n -> ViewRowPool] : n \in 1..MaxRows}}

\* parser = MappingParser(file); parser.parse(), by an orchestrator or on its own
InitViews ==
  /\ input \in ViewFiles
  /\ required_order = <<SOURCE_COLUMN, TARGET_COLUMN, TRANSFORMATION>>
  /\ LET r == parse(input, required_order)
     IN  /\ r.ok
         /\ mappings = r.mappings
         /\ parser_mappings = r.mappings
         /\ generator = SQLGenerator(r.mappings)
  /\ last = Returned("load_mappings", <<>>, <<>>)
  /\ load_history = "succeeded"
  /\ earlier = NoCall
  /\ calls = NoCalls
  /\ shares_file = NoSharesFile

\* one call of a view method of the parser
CallView(op, value) ==
  /\ last' = Returned(op, <<>>, value)
  /\ UNCHANGED <<mappings, parser_mappings, generator, required_order, input, load_history,
                 earlier, calls, shares_file>>

GetSourceColumns == CallView("get_source_columns", get_source_columns(parser_mappings))

GetTargetColumns == CallView("get_target_columns", get_target_columns(parser_mappings))

GetTransformations == CallView("get_transformations", get_transformations(parser_mappings))

ExtractSourceTables ==
  CallView("extract_source_tables", extract_source_tables(parser_mappings))

NextViews ==
  \/ GetSourceColumns \/ GetTargetColumns \/ GetTransformations \/ ExtractSourceTables
  \/ Summary

SpecViews == InitViews /\ [][NextViews]_vars

(***************************************************************************)
(* One mapping file whose header line is rewritten between loads           *)
(***************************************************************************)
\* header lines that differ from one another in letter case and outer whitespace only
HdrPlain == <<SOURCE_COLUMN, TARGET_COLUMN, TRANSFORMATION, IS_KEY>>
HdrDuplicateSame == <<SOURCE_COLUMN, SOURCE_COLUMN, TARGET_COLUMN, TRANSFORMATION>>
HdrOnlyTargetSpaced == << <<"TARGET_COLUMN", " ">>, NOTES >>

HeaderVariants ==
  {HdrPlain, HdrKeyed, HdrDuplicate, HdrDuplicateSame, HdrOnlyTarget, HdrOnlyTargetSpaced}

HeaderRowPool == {RowFull, RowConst, RowNoTarget}

HeaderFiles ==
  {[header |-> h, rows |-> [i \in DOMAIN rs |-> Line(h, rs[i])]] :
     h \in HeaderVariants, rs \in UNION {[1..n -> HeaderRowPool] : n \in 0..MaxRows}}

\* f and g differ in the letter case of their header names and the whitespace around
\* them, and in nothing else
SameButHeaderCase(f, g) ==
  /\ f.rows = g.rows
  /\ Len(f.header) = Len(g.header)
  /\ \A j \in DOMAIN f.header : NormalizeName(f.header[j]) = NormalizeName(g.header[j])

InitHeaders ==
  /\ mappings = <<>>
  /\ parser_mappings = <<>>
  /\ generator = NoGenerator
  /\ required_order \in SetOrders
  /\ input \in HeaderFiles
  /\ last = Returned("__init__", <<>>, <<>>)
  /\ load_history = "none"
  /\ earlier = NoCall
  /\ calls = NoCalls
  /\ shares_file = NoSharesFile

\* the header line of the file is retyped
RewriteHeader ==
  /\ \E f \in HeaderFiles : f # input /\ SameButHeaderCase(input, f) /\ input' = f
  /\ UNCHANGED <<mappings, parser_mappings, generator, required_order, last, load_history,
                 earlier, calls, shares_file>>

\* the caller notes how load_mappings ended and what validator.mappings holds
KeepLoad ==
  /\ last.op = "load_mappings"
  /\ earlier = NoCall
  /\ earlier' = [op |-> "load_mappings", args |-> <<>>, status |-> last.status,
                 error |-> last.error, value |-> mappings]
  /\ UNCHANGED <<mappings, parser_mappings, generator, required_order, input, last,
                 load_history, calls, shares_file>>

NextHeaders == LoadInput \/ RewriteHeader \/ KeepLoad

SpecHeaders == InitHeaders /\ [][NextHeaders]_vars

(***************************************************************************)
(* Mapping files with columns beyond the four of the format                *)
(***************************************************************************)
JOIN_KEY == Word("join_key")

HdrNotes == HdrPlain \o <<NOTES>>
HdrJoinKey == HdrPlain \o <<JOIN_KEY>>

\* row r with the cell v in its notes and join_key columns
ExtraCells(r, v) ==
  [c \in DOMAIN r \cup {NOTES, JOIN_KEY} |-> IF c \in {NOTES, JOIN_KEY} THEN v ELSE r[c]]

ColumnRowPool == {ExtraCells(r, v) : r \in {RowFull, RowConst}, v \in {<<>>, Word("TRUE")}}

ColumnFiles ==
  {[header |-> h, rows |-> [i \in DOMAIN rs |-> Line(h, rs[i])]] :
     h \in {HdrPlain, HdrNotes, HdrJoinKey},
     rs \in UNION {[1..n -> ColumnRowPool] : n \in 1..MaxRows}}

InitColumns ==
  /\ mappings = <<>>
  /\ parser_mappings = <<>>
  /\ generator = NoGenerator
  /\ required_order = <<SOURCE_COLUMN, TARGET_COLUMN, TRANSFORMATION>>
  /\ input \in ColumnFiles
  /\ last = Returned("__init__", <<>>, <<>>)
  /\ load_history = "none"
  /\ earlier = NoCall
  /\ calls = NoCalls
  /\ shares_file = NoSharesFile

NextColumns == LoadInput \/ Generate

SpecColumns == InitColumns /\ [][NextColumns]_vars

(***************************************************************************)
(* One mapping file loaded in several runs of the program                  *)
(***************************************************************************)
RunRowPool == {RowFull, RowNoTarget, RowOnlyTarget, RowBlank}

RunFiles ==
  {[header |-> HdrKeyed, rows |-> [i \in DOMAIN rs |-> Line(HdrKeyed, rs[i])]] :
     rs \in UNION {[1..n -> RunRowPool] : n \in 0..MaxRows}}

InitRuns ==
  /\ mappings = <<>>
  /\ parser_mappings = <<>>
  /\ generator = NoGenerator
  /\ required_order \in SetOrders
  /\ input \in RunFiles
  /\ last = Returned("__init__", <<>>, <<>>)
  /\ load_history = "none"
  /\ earlier = NoCall
  /\ calls = NoCalls
  /\ shares_file = NoSharesFile

\* the program ends and is started again: the class body builds REQUIRED_COLUMNS anew,
\* with the iteration order this process gives a set of str, and a new orchestrator
\* is constructed over the same file
Restart ==
  /\ required_order' \in SetOrders
  /\ mappings' = <<>>
  /\ parser_mappings' = <<>>
  /\ generator' = NoGenerator
  /\ last' = Returned("__init__", <<>>, <<>>)
  /\ load_history' = "none"
  /\ UNCHANGED <<input, earlier, calls, shares_file>>

NextRuns == LoadInput \/ KeepLoad \/ Restart

SpecRuns == InitRuns /\ [][NextRuns]_vars

(***************************************************************************)
(* One orchestrator whose mapping file is replaced between loads           *)
(***************************************************************************)
ReloadFiles ==
  {[header |-> HdrKeyed, rows |-> [i \in DOMAIN rs |-> Line(HdrKeyed, rs[i])]] :
     rs \in UNION {[1..n -> {RowFull, RowNoTarget}] : n \in 1..MaxRows}}

InitReload ==
  /\ mappings = <<>>
  /\ parser_mappings = <<>>
  /\ generator = NoGenerator
  /\ required_order = <<SOURCE_COLUMN, TARGET_COLUMN, TRANSFORMATION>>
  /\ input \in ReloadFiles
  /\ last = Returned("__init__", <<>>, <<>>)
  /\ load_history = "none"
  /\ earlier = NoCall
  /\ calls = NoCalls
  /\ shares_file = NoSharesFile

\* another specification is written to the path of the parser
ReplaceFile ==
  /\ \E f \in ReloadFiles : f # input /\ input' = f
  /\ UNCHANGED <<mappings, parser_mappings, generator, required_order, last, load_history,
                 earlier, calls, shares_file>>

NextReload == LoadInput \/ ReplaceFile \/ KeepLoad \/ Summary

SpecReload == InitReload /\ [][NextReload]_vars

(***************************************************************************)
(* A SQLGenerator over entries with and without key marks                  *)
(***************************************************************************)
\* entries as to_dict('records') gives them for files with an is_key column holding
\* TRUE/FALSE, holding Yes/No, holding nothing, and for files with a join_key column
EntryNotKey ==
  (SOURCE_COLUMN :> StrVal(Word("amount"))) @@ (TARGET_COLUMN :> StrVal(Word("total"))) @@
  (TRANSFORMATION :> StrVal(<<"orders", ".", "amount">>)) @@ (IS_KEY :> BoolVal(Word("False")))
EntryUnmarked ==
  (SOURCE_COLUMN :> StrVal(Word("name"))) @@ (TARGET_COLUMN :> StrVal(Word("name"))) @@
  (TRANSFORMATION :> StrVal(<<"orders", ".", "name">>)) @@ (IS_KEY :> None)
EntryKeyedNoTarget ==
  (SOURCE_COLUMN :> StrVal(Word("id"))) @@ (TARGET_COLUMN :> None) @@
  (TRANSFORMATION :> StrVal(<<"orders", ".", "id">>)) @@ (IS_KEY :> BoolVal(Word("True")))
EntryTextNo ==
  (SOURCE_COLUMN :> StrVal(Word("email"))) @@ (TARGET_COLUMN :> StrVal(Word("email"))) @@
  (TRANSFORMATION :> StrVal(<<"orders", ".", "email">>)) @@ (IS_KEY :> StrVal(Word("No")))
EntryJoinKey ==
  (SOURCE_COLUMN :> StrVal(Word("customer_id"))) @@ (TARGET_COLUMN :> StrVal(Word("customer"))) @@
  (TRANSFORMATION :> StrVal(<<"orders", ".", "customer_id">>)) @@
  (IS_KEY :> BoolVal(Word("False"))) @@ (JOIN_KEY :> BoolVal(Word("True")))
EntryNoColumns ==
  (SOURCE_COLUMN :> None) @@ (TARGET_COLUMN :> None) @@
  (TRANSFORMATION :> StrVal(Word("1"))) @@ (IS_KEY :> BoolVal(Word("True")))

KeyEntryPool ==
  {EntryKeyed, EntryNotKey, EntryUnmarked, EntryKeyedNoTarget, EntryTextNo, EntryJoinKey,
   EntryNoColumns}

KeyMappings == UNION {[1..n -> KeyEntryPool] : n \in 1..MaxRows}

InitKeys ==
  /\ generator \in {SQLGenerator(ms) : ms \in KeyMappings}
  /\ mappings = <<>>
  /\ parser_mappings = <<>>
  /\ required_order = <<SOURCE_COLUMN, TARGET_COLUMN, TRANSFORMATION>>
  /\ input = NoInput
  /\ last = Returned("__init__", <<>>, <<>>)
  /\ load_history = "none"
  /\ earlier = NoCall
  /\ calls = NoCalls
  /\ shares_file = NoSharesFile

SpecKeys == InitKeys /\ [][NextGenerator]_vars

(***************************************************************************)
(* SQLPlayground: the share store, its calls interleaved by statement      *)
(***************************************************************************)
ShareQueries == {Word("SELECT * FROM customers"), Word("SELECT 1")}

\* the id a create_share_link call makes of its query, the time and 8 random bytes:
\* one id per call, none made twice
NewShareId(t) == IF t = "t1" THEN "share_1" ELSE "share_2"

\* a share made before these calls
OldShareId == "share_0"

\* the dict create_share_link stores for a query (sample_data, results and created_at
\* are stored and never read again by the two methods)
Share(query) == [query |-> query, view_count |-> 0]

\* shares.json with the dict shares dumped into it
SharesFile(shares) == [parses |-> TRUE, shares |-> shares]

\* shares.json after open(self.shares_file, 'w'): truncated, json.load raises on it
Truncated == [parses |-> FALSE, shares |-> <<>>]

\* shares.json after a call wrote its dict and closed the file: its dump alone when
\* the file was empty; when another call has written since this one truncated it,
\* the dump laid over that text, which is this dump or this dump and a rest of the other
Written(file, shares) ==
  IF file.parses THEN {SharesFile(shares), Truncated} ELSE {SharesFile(shares)}

\* dict d with d[key] = value
Put(d, key, value) == [k \in DOMAIN d \cup {key} |-> IF k = key THEN value ELSE d[k]]

\* the share ids a caller can hold: of the old share, of the calls that returned one
KnownShareIds ==
  {OldShareId} \cup
  {calls[t].result.value : t \in {u \in Threads : /\ calls[u].op = "create_share_link"
                                                 /\ calls[u].pc = "done"
                                                 /\ calls[u].result.status = "returned"}}

\* SQLPlayground.__init__ over a storage directory without shares.json, or with the
\* shares.json an earlier create_share_link left
InitShare ==
  /\ mappings = <<>>
  /\ parser_mappings = <<>>
  /\ generator = NoGenerator
  /\ required_order = <<SOURCE_COLUMN, TARGET_COLUMN, TRANSFORMATION>>
  /\ input = NoInput
  /\ last = Returned("__init__", <<>>, <<>>)
  /\ load_history = "none"
  /\ earlier = NoCall
  /\ calls = [t \in Threads |-> Idle]
  /\ shares_file \in {NoSharesFile} \cup
                      {SharesFile(OldShareId :> Share(q)) : q \in ShareQueries}

BeginCreate(t) ==
  /\ calls[t].pc = "idle"
  /\ \E q \in ShareQueries :
       calls' = [calls EXCEPT ![t] = Entered("create_share_link", [query |-> q], "line690")]
  /\ UNCHANGED <<mappings, parser_mappings, generator, required_order, input, last,
                 load_history, earlier, shares_file>>

BeginGet(t) ==
  /\ calls[t].pc = "idle"
  /\ \E id \in KnownShareIds :
       calls' = [calls EXCEPT ![t] = Entered("get_shared_query", [share_id |-> id], "line724")]
  /\ UNCHANGED <<mappings, parser_mappings, generator, required_order, input, last,
                 load_history, earlier, shares_file>>

\* one statement of create_share_link in thread t
CreateStep(t) ==
  LET c == calls[t]
      op == "create_share_link"
      at(pc) == [c EXCEPT !.pc = pc]
  IN  /\ c.op = op /\ c.pc \notin {"idle", "done"}
      /\ CASE c.pc = "line690" ->
                /\ calls' = [calls EXCEPT ![t] =
                     [c EXCEPT !.pc = "line695", !.locals = [share_id |-> NewShareId(t)]]]
                /\ UNCHANGED shares_file
           [] c.pc = "line695" ->
                /\ calls' = [calls EXCEPT ![t] =
                     IF shares_file.parses
                     THEN [c EXCEPT !.pc = "line699",
                                    !.locals = [share_id |-> c.locals.share_id,
                                                shares |-> shares_file.shares]]
                     ELSE Done(c, Raised(op, c.args, Error("json_decode_error", <<>>, <<>>, 0)))]
                /\ UNCHANGED shares_file
           [] c.pc = "line699" ->
                /\ calls' = [calls EXCEPT ![t] =
                     [c EXCEPT !.pc = "line708",
                               !.locals.shares =
                                  Put(c.locals.shares, c.locals.share_id, Share(c.args.query))]]
                /\ UNCHANGED shares_file
           [] c.pc = "line708" ->
                /\ calls' = [calls EXCEPT ![t] = at("line709")]
                /\ shares_file' = Truncated
           [] c.pc = "line709" ->
                /\ calls' = [calls EXCEPT ![t] = at("line711")]
                /\ shares_file' \in Written(shares_file, c.locals.shares)
           [] c.pc = "line711" ->
                /\ calls' = [calls EXCEPT ![t] = Done(c, Returned(op, c.args, c.locals.share_id))]
                /\ UNCHANGED shares_file
      /\ UNCHANGED <<mappings, parser_mappings, generator, required_order, input, last,
                     load_history, earlier>>

\* one statement of get_shared_query in thread t
GetStep(t) ==
  LET c == calls[t]
      op == "get_shared_query"
      at(pc) == [c EXCEPT !.pc = pc]
      id == c.args.share_id
  IN  /\ c.op = op /\ c.pc \notin {"idle", "done"}
      /\ CASE c.pc = "line724" ->
                /\ calls' = [calls EXCEPT ![t] =
                     IF shares_file.parses
                     THEN [c EXCEPT !.pc = "line727", !.locals = [shares |-> shares_file.shares]]
                     ELSE Done(c, Returned(op, c.args, None))]
                /\ UNCHANGED shares_file
           [] c.pc = "line727" ->
                /\ calls' = [calls EXCEPT ![t] =
                     IF id \in DOMAIN c.locals.shares
                     THEN at("line729")
                     ELSE Done(c, Returned(op, c.args, None))]
                /\ UNCHANGED shares_file
           [] c.pc = "line729" ->
                /\ calls' = [calls EXCEPT ![t] =
                     [c EXCEPT !.pc = "line732",
                               !.locals.shares[id].view_count =
                                  c.locals.shares[id].view_count + 1]]
                /\ UNCHANGED shares_file
           [] c.pc = "line732" ->
                /\ calls' = [calls EXCEPT ![t] = at("line733")]
                /\ shares_file' = Truncated
           [] c.pc = "line733" ->
                /\ calls' = [calls EXCEPT ![t] = at("line735")]
                /\ shares_file' \in Written(shares_file, c.locals.shares)
           [] c.pc = "line735" ->
                /\ calls' = [calls EXCEPT ![t] =
                     Done(c, Returned(op, c.args, c.locals.shares[id]))]
                /\ UNCHANGED shares_file
      /\ UNCHANGED <<mappings, parser_mappings, generator, required_order, input, last,
                     load_history, earlier>>

NextShare ==
  \E t \in Threads : BeginCreate(t) \/ BeginGet(t) \/ CreateStep(t) \/ GetStep(t)

SpecShare == InitShare /\ [][NextShare]_vars

(***************************************************************************)
(* Properties                                                              *)
(***************************************************************************)
IsGenerate == last.op = "generate_validation_queries"
IsLoad == last.op = "load_mappings"
IsSummary == last.op = "get_mapping_summary"
NotLoadedRaised == last.status = "raised" /\ last.error.kind = "mappings_not_loaded"
NeverLoaded == load_history \in {"none", "failed_only"}

\* C1: while no load_mappings call has succeeded (none made, or all failed), every
\* generate_validation_queries call, whatever its tables, schemas and query_type,
\* raises the not-loaded error and returns no query map.
C1_NotLoadedBeforeLoad ==
  (IsGenerate /\ NeverLoaded) => (NotLoadedRaised /\ DOMAIN last.value = {})

C1_Witness ==
  /\ IsGenerate /\ load_history = "failed_only" /\ NotLoadedRaised
  /\ last.args.query_type = "complete" /\ Truthy(last.args.source_schema)

\* C2: once a load_mappings call has succeeded, no later call (generate, summary,
\* loads that succeed or fail) brings back a state in which
\* generate_validation_queries raises the not-loaded error.
C2_NoWayBackToUnloaded ==
  ~NeverLoaded => (~generator.is_none /\ (IsGenerate => ~NotLoadedRaised))

C2_Witness ==
  IsGenerate /\ load_history = "failed_after_success" /\ last.status = "returned"

\* C3: a load_mappings call that fails leaves mappings, the parser's mappings and the
\* generator as they were: Unloaded stays Unloaded with an empty list, Loaded keeps the
\* whole previous MappingSet in all three places.
C3_FailedLoadChangesNothing ==
  [][(last'.op = "load_mappings" /\ last'.status = "raised")
       => /\ mappings' = mappings
          /\ parser_mappings' = parser_mappings
          /\ generator' = generator
          /\ (generator.is_none => mappings' = <<>> /\ parser_mappings' = <<>>)]_vars

C3_Witness ==
  /\ IsLoad /\ last.status = "raised" /\ load_history = "failed_after_success"
  /\ Len(mappings) = MaxRows /\ parser_mappings = mappings /\ generator.mappings = mappings

(***************************************************************************)
(* What a mapping file holds, read off its raw text                        *)
(***************************************************************************)
FileColumns(f) == [j \in DOMAIN f.header |-> NormalizeName(f.header[j])]
HasColumn(f, c) == \E j \in DOMAIN f.header : FileColumns(f)[j] = c
MissingRequired(f) == {c \in REQUIRED_COLUMNS : ~HasColumn(f, c)}
RequiredOnce(f) ==
  \A c \in REQUIRED_COLUMNS : Cardinality({j \in DOMAIN f.header : FileColumns(f)[j] = c}) = 1
CellEmpty(f, i, c) == \E j \in DOMAIN f.header : FileColumns(f)[j] = c /\ f.rows[i][j] = <<>>
RowIncomplete(f, i) == \E c \in REQUIRED_COLUMNS : CellEmpty(f, i, c)
IncompleteRows(f) == {i \in DOMAIN f.rows : RowIncomplete(f, i)}
ColumnUnused(f, c) == HasColumn(f, c) /\ \A i \in DOMAIN f.rows : CellEmpty(f, i, c)
Check1Fails(f) == Len(f.header) = 0 \/ Len(f.rows) = 0
Check2Fails(f) == MissingRequired(f) # {}
Check3Fails(f) == \E c \in REQUIRED_COLUMNS : ColumnUnused(f, c)
Check4Fails(f) == IncompleteRows(f) # {}
LoadRaised(kind) == last.status = "raised" /\ last.error.kind = kind

\* C4: validation reports the first failing check in the order (1) empty input,
\* (2) required header missing, (3) required column without any value, (4) rows with
\* a missing required value: when an earlier check fails, the load fails and the error
\* of a later check is never the one reported.
C4_FirstFailureWins ==
  IsLoad =>
    /\ Check1Fails(input) =>
         last.status = "raised" /\ last.error.kind \in {"file_empty", "no_columns_to_parse"}
    /\ (~Check1Fails(input) /\ Check2Fails(input)) => LoadRaised("missing_columns")
    /\ Check3Fails(input) =>
         last.status = "raised" /\ last.error.kind # "incomplete_rows"
    /\ Check4Fails(input) => last.status = "raised"

C4_Witness ==
  /\ IsLoad /\ Len(input.rows) = MaxRows /\ ~Check2Fails(input)
  /\ Check3Fails(input) /\ Check4Fails(input) /\ ~ColumnUnused(input, TARGET_COLUMN)
  /\ LoadRaised("column_empty")

C6_CountsIncompleteRows ==
  (/\ IsLoad /\ input.header # <<>> /\ MissingRequired(input) = {}
   /\ ~Check3Fails(input) /\ Cardinality(IncompleteRows(input)) >= 1)
  => /\ LoadRaised("incomplete_rows")
     /\ last.error.count = Cardinality(IncompleteRows(input))
     /\ mappings = <<>> /\ parser_mappings = <<>>

\* C7 as stated: whenever a required field is absent from the normalized header, the
\* load fails with the error that names exactly the absent required fields and lists
\* the fields found.
C7_Original ==
  (IsLoad /\ MissingRequired(input) # {})
  => /\ LoadRaised("missing_columns")
     /\ Range(last.error.columns) = MissingRequired(input)
     /\ Range(last.error.found) = Range(FileColumns(input))

\* C7 amended: when the input has at least one data row and a required field is absent
\* from the normalized header, the load fails with the error that names exactly the
\* absent required fields and lists the fields found; a header without transformation
\* gets transformation listed as missing.
C7_NamesMissingColumns ==
  (IsLoad /\ Len(input.rows) >= 1 /\ MissingRequired(input) # {})
  => /\ LoadRaised("missing_columns")
     /\ Range(last.error.columns) = MissingRequired(input)
     /\ Len(last.error.columns) = Cardinality(MissingRequired(input))
     /\ Range(last.error.found) = Range(FileColumns(input))
     /\ (~HasColumn(input, TRANSFORMATION) => TRANSFORMATION \in Range(last.error.columns))

C7_Witness ==
  /\ IsLoad /\ Len(input.rows) >= 1 /\ input.header = HdrOnlyTarget
  /\ LoadRaised("missing_columns")
  /\ last.error.columns = <<SOURCE_COLUMN, TRANSFORMATION>>
  /\ last.error.found = <<NOTES, TARGET_COLUMN>>

\* the raw text of the cell of row i in the column named c
RawCell(f, i, c) == f.rows[i][CHOOSE j \in DOMAIN f.header : FileColumns(f)[j] = c]

\* C8: an input that passes validation with N rows loads as exactly N mapping entries
\* in the row order of the input, rows with the same target_column included, and
\* get_mapping_summary then reports total_mappings = N.
C8_EveryRowLoaded ==
  /\ (IsLoad /\ last.status = "returned") =>
       /\ Len(mappings) = Len(input.rows)
       /\ \A i \in DOMAIN input.rows : \A c \in REQUIRED_COLUMNS :
            Get(mappings[i], c).v = RawCell(input, i, c)
  /\ (IsSummary /\ ~generator.is_none) =>
       /\ DOMAIN last.value # {}
       /\ last.value.total_mappings = Len(input.rows)

C8_Witness ==
  /\ IsSummary /\ ~generator.is_none /\ last.value.total_mappings = MaxRows
  /\ Get(mappings[1], TARGET_COLUMN) = Get(mappings[MaxRows], TARGET_COLUMN)
  /\ Get(mappings[1], SOURCE_COLUMN) # Get(mappings[MaxRows], SOURCE_COLUMN)

\* a MappingSet is non-empty and every entry has a target_column that is neither null
\* nor empty
WellFormed(ms) ==
  /\ ms # <<>>
  /\ \A i \in DOMAIN ms :
       /\ TARGET_COLUMN \in DOMAIN ms[i]
       /\ ms[i][TARGET_COLUMN].t # "NoneType"
       /\ ms[i][TARGET_COLUMN].v # <<>>

\* C9: in every state in which the orchestrator is Loaded its MappingSet is non-empty
\* and every entry has a non-null, non-empty target_column, whatever loads came before.
C9_LoadedMappingsWellFormed ==
  ~generator.is_none =>
    WellFormed(mappings) /\ WellFormed(parser_mappings) /\ WellFormed(generator.mappings)

C9_Witness ==
  /\ ~generator.is_none /\ load_history = "failed_after_success" /\ IsLoad
  /\ Len(mappings) = MaxRows /\ WellFormed(mappings)

\* the keys the result must have for a mode
ExpectedKeys(mode) ==
  CASE mode = "source_minus_target" -> {"source_minus_target"}
    [] mode = "target_minus_source" -> {"target_minus_source"}
    [] mode = "both" -> {"source_minus_target", "target_minus_source", "complete"}

\* C10: on a Loaded orchestrator generate_validation_queries returns a map whose keys
\* are exactly {source_minus_target}, {target_minus_source} or {source_minus_target,
\* target_minus_source, complete} for the modes of those names and for both.
C10_KeysPerMode ==
  (/\ IsGenerate /\ ~generator.is_none
   /\ last.args.query_type \in {"both", "source_minus_target", "target_minus_source"})
  => (last.status = "returned" /\ DOMAIN last.value = ExpectedKeys(last.args.query_type))

(***************************************************************************)
(* Reading a generated text                                                *)
(***************************************************************************)
\* text holds part from position i on
OccursAt(text, part, i) ==
  /\ i + Len(part) - 1 <= Len(text)
  /\ \A n \in DOMAIN part : text[i + n - 1] = part[n]

\* the positions of text where part starts
Occurrences(text, part) == {i \in DOMAIN text : OccursAt(text, part, i)}

\* a comment line made of a row of = signs
IsSeparatorLine(l) == l = "-- ========================================\n"

\* C11: in mode both the text under complete holds, in this order, the whole text
\* under source_minus_target, a separator comment line and the whole text under
\* target_minus_source, each exactly as returned under its own key by the same call.
C11_CompleteJoinsBoth ==
  (IsGenerate /\ last.status = "returned" /\ last.args.query_type = "both") =>
    LET complete == last.value.complete
        smt == last.value.source_minus_target
        tms == last.value.target_minus_source
    IN  \E i \in Occurrences(complete, smt) : \E j \in Occurrences(complete, tms) :
          \E k \in (i + Len(smt))..(j - 1) : IsSeparatorLine(complete[k])

C11_Witness ==
  /\ IsGenerate /\ last.status = "returned" /\ last.args.query_type = "both"
  /\ Truthy(last.args.source_schema) /\ ~Truthy(last.args.target_schema)
  /\ Len(generator.mappings) = MaxRows
  /\ Occurrences(last.value.complete, last.value.target_minus_source) # {}

IsGeneratorCall == last.op \in GeneratorOps
QueryReturned(op) == last.op = op /\ last.status = "returned"

\* the positions of token tok in text, in ascending order
PositionsOf(text, tok) == SelectSeq([i \in DOMAIN text |-> i], LAMBDA i : text[i] = tok)

\* the labels a query text gives its validation_type column, DETAIL aside
Labels(text) ==
  {text[i] : i \in {k \in DOMAIN text : k < Len(text) /\ text[k + 1] = "' AS validation_type,\n"}}

\* the operands <<left, right>> of the EXCEPT subqueries of a query text, in text order
ExceptOperands(text) ==
  LET at == PositionsOf(text, "  EXCEPT\n")
  IN  [n \in DOMAIN at |->
         IF /\ at[n] > 3 /\ at[n] + 2 <= Len(text)
            /\ text[at[n] - 3] = "  SELECT * FROM " /\ text[at[n] - 1] = "\n"
            /\ text[at[n] + 1] = "  SELECT * FROM "
         THEN <<text[at[n] - 2], text[at[n] + 2]>>
         ELSE <<"", "">>]

\* the query text defines the CTEs source_transformed and target_data, once each
DefinesBothCTEs(text) ==
  /\ Len(PositionsOf(text, "WITH source_transformed AS (\n")) = 1
  /\ Len(PositionsOf(text, "target_data AS (\n")) = 1

\* C13: the source-minus-target query is labelled SOURCE_MINUS_TARGET, defines the CTEs
\* source_transformed and target_data, and its two difference subqueries are
\* source_transformed EXCEPT target_data; the target-minus-source query is labelled
\* TARGET_MINUS_SOURCE, defines the same CTEs, and its two difference subqueries are
\* target_data EXCEPT source_transformed.
C13_LabelsAndExceptOrder ==
  /\ QueryReturned("generate_source_minus_target") =>
       /\ Labels(last.value) = {"SOURCE_MINUS_TARGET"}
       /\ DefinesBothCTEs(last.value)
       /\ ExceptOperands(last.value) =
            << <<"source_transformed", "target_data">>, <<"source_transformed", "target_data">> >>
  /\ QueryReturned("generate_target_minus_source") =>
       /\ Labels(last.value) = {"TARGET_MINUS_SOURCE"}
       /\ DefinesBothCTEs(last.value)
       /\ ExceptOperands(last.value) =
            << <<"target_data", "source_transformed">>, <<"target_data", "source_transformed">> >>

C13_Witness ==
  /\ QueryReturned("generate_target_minus_source")
  /\ Len(generator.mappings) = MaxRows
  /\ ExceptOperands(last.value)[2] = <<"target_data", "source_transformed">>
  /\ Labels(last.value) = {"TARGET_MINUS_SOURCE"}

\* the tokens that follow position i of text up to the end of its line
RestOfLine(text, i) ==
  LET end == CHOOSE k \in (i + 1)..Len(text) :
               text[k] = "\n" /\ \A j \in (i + 1)..(k - 1) : text[j] # "\n"
  IN  SubSeq(text, i + 1, end - 1)

\* what the FROM clauses of the CTEs of a query text name, in text order: the source of
\* source_transformed (with its alias), then the table of target_data
FromLines(text) ==
  LET at == PositionsOf(text, "  FROM ")
  IN  [n \in DOMAIN at |-> RestOfLine(text, at[n])]

\* text holds <qualifier>.<table>
HasQualified(text, table) ==
  \E i \in DOMAIN text :
    i > 1 /\ text[i] = "." /\ IsWord(text[i - 1]) /\ OccursAt(text, table, i + 1)

SchemaOnSourceOnly ==
  last.args.source_schema = StrVal(Word("s1")) /\ last.args.target_schema = None

\* C14 as stated: with source schema s1 and no target schema, every generated query
\* holds s1.<sourceTable> and holds no qualified form of <targetTable>, whether or not
\* the two table names are equal.
C14_Original ==
  (IsGeneratorCall /\ last.status = "returned" /\ SchemaOnSourceOnly) =>
    /\ Occurrences(last.value, <<"s1", ".">> \o last.args.source_table) # {}
    /\ ~HasQualified(last.value, last.args.target_table)

\* C14 amended: with source schema s1 and no target schema, every generated query reads
\* source_transformed FROM s1.<sourceTable> <sourceTable> and target_data FROM
\* <targetTable> without any prefix, whether or not the two table names are equal; when
\* the names differ no FROM clause holds a qualified form of <targetTable>.
C14_SchemaOnSourceOnly ==
  (IsGeneratorCall /\ last.status = "returned" /\ SchemaOnSourceOnly) =>
    LET from == FromLines(last.value)
        source_table == last.args.source_table
        target_table == last.args.target_table
    IN  /\ Len(from) = IF last.op = "generate_complete_validation" THEN 4 ELSE 2
        /\ \A n \in DOMAIN from :
             /\ n % 2 = 1 => from[n] = <<"s1", ".">> \o source_table \o <<" ">> \o source_table
             /\ n % 2 = 0 => from[n] = target_table
             /\ source_table # target_table => ~HasQualified(from[n], target_table)

C14_Witness ==
  /\ IsGeneratorCall /\ last.status = "returned" /\ SchemaOnSourceOnly
  /\ last.op = "generate_complete_validation"
  /\ last.args.source_table = last.args.target_table
  /\ HasQualified(last.value, last.args.target_table)
  /\ FromLines(last.value)[4] = last.args.target_table

\* a schema argument that is given and is not the empty string
Present(schema) == schema.t = "str" /\ schema.v # <<>>

\* <schema>.<table> for a schema that is present, <table> otherwise
Rendered(schema, table) == IF Present(schema) THEN schema.v \o <<".">> \o table ELSE table

\* C15: every generated query names the source as <sourceSchema>.<sourceTable> exactly
\* when a source schema is present and as <sourceTable> otherwise, and the target
\* likewise from the target schema alone, in each of the four present/absent
\* combinations; an empty-string schema counts as absent.
C15_SchemaPerSide ==
  (IsGeneratorCall /\ last.status = "returned") =>
    LET from == FromLines(last.value)
    IN  /\ from # <<>>
        /\ \A n \in DOMAIN from :
             /\ n % 2 = 1 =>
                  from[n] = Rendered(last.args.source_schema, last.args.source_table) \o
                            <<" ">> \o last.args.source_table
             /\ n % 2 = 0 =>
                  from[n] = Rendered(last.args.target_schema, last.args.target_table)

C15_Witness ==
  /\ QueryReturned("generate_source_minus_target")
  /\ last.args.source_schema = StrVal(<<>>) /\ last.args.target_schema = StrVal(Word("s1"))
  /\ last.args.source_table = last.args.target_table
  /\ FromLines(last.value) =
       << last.args.source_table \o <<" ">> \o last.args.source_table,
          <<"s1", ".">> \o last.args.target_table >>

RECURSIVE Squeeze(_)
\* every run of whitespace made one space
Squeeze(s) ==
  IF s = <<>> THEN <<>>
  ELSE IF Head(s) \in Whitespace
       THEN (IF Len(s) > 1 /\ s[2] \in Whitespace THEN <<>> ELSE <<" ">>) \o Squeeze(Tail(s))
       ELSE <<Head(s)>> \o Squeeze(Tail(s))

\* a text in whitespace-normalized (trimmed, single-spaced) form
SingleSpaced(s) == Squeeze(Strip(s))

\* a field of a mapping entry that is there and is not empty
NonEmpty(m, key) == key \in DOMAIN m /\ m[key].t # "NoneType" /\ m[key].v # <<>>

\* a transformation that is a text with something other than whitespace in it
NonBlank(m) ==
  /\ NonEmpty(m, TRANSFORMATION)
  /\ m[TRANSFORMATION].t = "str"
  /\ Strip(m[TRANSFORMATION].v) # <<>>

\* the SELECT item claimed for entry m, has_transformation telling which entries count
\* as having a transformation
ClaimedItem(m, source_table, has_transformation(_)) ==
  IF has_transformation(m)
  THEN <<"    ">> \o SingleSpaced(m[TRANSFORMATION].v) \o <<" AS ">> \o m[TARGET_COLUMN].v
  ELSE IF NonEmpty(m, SOURCE_COLUMN)
       THEN <<"    ">> \o source_table \o <<".">> \o m[SOURCE_COLUMN].v \o
            <<" AS ">> \o m[TARGET_COLUMN].v
       ELSE <<"    NULL AS ">> \o m[TARGET_COLUMN].v

\* the SELECT list claimed for the mapping list ms: one item per entry with a target
\* column, in the order of ms, joined by comma-newline
ClaimedList(ms, source_table, has_transformation(_)) ==
  LET with_target == SelectSeq(ms, LAMBDA m : NonEmpty(m, TARGET_COLUMN))
  IN  Join([i \in DOMAIN with_target |->
              ClaimedItem(with_target[i], source_table, has_transformation)],
           <<",\n">>)

\* the SELECT lists of the source_transformed CTEs of a query text, in text order
SelectLists(text) ==
  LET at == PositionsOf(text, "  SELECT\n")
      end(p) == CHOOSE k \in (p + 1)..(Len(text) - 1) :
                  /\ text[k] = "\n" /\ text[k + 1] = "  FROM "
                  /\ \A j \in (p + 1)..(k - 1) : ~(text[j] = "\n" /\ text[j + 1] = "  FROM ")
  IN  [n \in DOMAIN at |-> SubSeq(text, at[n] + 1, end(at[n]) - 1)]

\* C16 as stated: the SELECT list of source_transformed, the same in both directions,
\* has one item per entry with a non-empty target_column, in mapping order: the
\* whitespace-normalized transformation AS target when the transformation is non-empty,
\* else <sourceTable>.<source_column> AS target when there is a source column, else
\* NULL AS target.
C16_Original ==
  (IsGeneratorCall /\ last.status = "returned") =>
    /\ SelectLists(last.value) # <<>>
    /\ \A n \in DOMAIN SelectLists(last.value) :
         SelectLists(last.value)[n] =
           ClaimedList(generator.mappings, last.args.source_table,
                       LAMBDA m : NonEmpty(m, TRANSFORMATION))

\* C16 amended: as stated for every query returned, with the transformation item chosen
\* when the transformation is a text that is non-empty after trimming whitespace; an
\* entry whose transformation is whitespace only, or the number 0, is rendered as an
\* entry without transformation.
C16_SelectList ==
  (IsGeneratorCall /\ last.status = "returned") =>
    /\ SelectLists(last.value) # <<>>
    /\ \A n \in DOMAIN SelectLists(last.value) :
         SelectLists(last.value)[n] =
           ClaimedList(generator.mappings, last.args.source_table, NonBlank)

C16_Witness ==
  /\ QueryReturned("generate_target_minus_source")
  /\ generator.mappings = <<EntryBlankTransformation, EntryKeyed>>
  /\ SelectLists(last.value) =
       << <<"    ", "orders", ".", "name", " AS ", "name", ",\n",
            "    ", "customers", ".", "customer_id", " AS ", "cust_id">> >>

\* C17: on every MappingSet a successful load produces, whatever the cells of the file
\* held (text, numbers, booleans), generate_source_minus_target,
\* generate_target_minus_source and generate_complete_validation return SQL text and
\* never raise, for all table and schema arguments.
C17_SynthesisNeverRaises ==
  (IsGeneratorCall /\ generator.mappings \in LoadedMappings) =>
    (last.status = "returned" /\ last.value # <<>>)

\* C18: get_mapping_summary on an Unloaded orchestrator (no load_mappings call made, or
\* only failed ones) returns an empty structure and raises no error.
C18_SummaryEmptyWhenUnloaded ==
  (IsSummary /\ NeverLoaded) =>
    (last.status = "returned" /\ last.error = NoError /\ DOMAIN last.value = {})

C18_Witness ==
  /\ IsSummary /\ load_history = "failed_only" /\ generator.is_none
  /\ last.status = "returned" /\ DOMAIN last.value = {}

\* C19 as stated: before a successful load both generate_validation_queries and
\* get_mapping_summary fail with the not-loaded error and return no value.
C19_Original ==
  ((IsGenerate \/ IsSummary) /\ NeverLoaded) => NotLoadedRaised

\* C19 amended: before a successful load generate_validation_queries fails with the
\* not-loaded error and returns no value; get_mapping_summary does not fail, it returns
\* the empty structure.
C19_OnlySynthesisFails ==
  NeverLoaded =>
    /\ IsGenerate => (NotLoadedRaised /\ DOMAIN last.value = {})
    /\ IsSummary => (~NotLoadedRaised /\ last.status = "returned" /\ DOMAIN last.value = {})

C19_Witness ==
  /\ IsSummary /\ load_history = "none" /\ mappings = <<>>
  /\ last.status = "returned" /\ ~NotLoadedRaised

\* what the call of a thread returns when no other call runs beside it
Alone(call) ==
  IF call.op = "generate_validation_queries"
  THEN GenerateOutcome(generator, call.args)
  ELSE Returned("get_mapping_summary", <<>>, SummaryValue(mappings, parser_mappings))

\* C20: on a Loaded orchestrator, under every interleaving of the statements of
\* concurrent generate_validation_queries and get_mapping_summary calls, no step changes
\* the MappingSet (in the orchestrator, its parser or its generator) and every call ends
\* with the outcome it has when it runs alone.
C20_ConcurrentCallsIndependent ==
  [][/\ mappings' = mappings /\ parser_mappings' = parser_mappings /\ generator' = generator
     /\ \A t \in DOMAIN calls :
          (calls'[t].pc = "done" /\ calls[t].pc # "done") => calls'[t].result = Alone(calls'[t])
    ]_vars

C20_Witness ==
  /\ DOMAIN calls = Threads
  /\ \A t \in Threads : calls[t].pc = "done" /\ calls[t].result.status = "returned"
  /\ calls["t1"].op = "generate_validation_queries" /\ calls["t1"].args.query_type = "both"
  /\ calls["t2"].op = "generate_validation_queries"
  /\ calls["t1"].args.source_schema # calls["t2"].args.source_schema
  /\ calls["t1"].result.value # calls["t2"].result.value
  /\ calls["t1"].result = Alone(calls["t1"])
  /\ Len(mappings) = MaxRows

\* s is in strictly ascending order, so without duplicates
StrictlyAscending(s) == \A i \in DOMAIN s : \A j \in DOMAIN s : i < j => TextLess(s[i], s[j])

\* the runs of word characters followed by a dot in the transformation cells of file f
TablesWritten(f) ==
  UNION {LET cell == RawCell(f, i, TRANSFORMATION)
         IN  {Word(cell[k]) : k \in {n \in DOMAIN cell :
                                      n < Len(cell) /\ IsWord(cell[n]) /\ cell[n + 1] = "."}} :
         i \in DOMAIN f.rows}

\* the value extract_source_tables has given: on its own, or inside the summary
TablesReturned ==
  IF last.op = "extract_source_tables" THEN last.value ELSE last.value.detected_source_tables

\* C21: extract_source_tables returns, in ascending order and without duplicates, every
\* run of word characters that is followed at once by a dot in the transformation of
\* any entry; for the transformations orders.id and CONCAT(orders.a, customers.b) it
\* returns [customers, orders].
C21_SourceTablesSortedDistinct ==
  (last.op \in {"extract_source_tables", "get_mapping_summary"}) =>
    /\ Range(TablesReturned) = TablesWritten(input)
    /\ StrictlyAscending(TablesReturned)
    /\ (input.rows = <<Line(HdrKeyed, RowOrdersId), Line(HdrKeyed, RowConcat)>> =>
         TablesReturned = <<Word("customers"), Word("orders")>>)

C21_Witness ==
  /\ last.op = "extract_source_tables"
  /\ input.rows = <<Line(HdrKeyed, RowOrdersId), Line(HdrKeyed, RowConcat)>>
  /\ last.value = <<Word("customers"), Word("orders")>>

\* the texts of a sequence of values
Texts(values) == [i \in DOMAIN values |-> values[i].v]

\* the texts written in column c of file f
ColumnTexts(f, c) == {RawCell(f, i, c) : i \in DOMAIN f.rows}

\* the last row of f, in file order, whose target_column is target
LastRowFor(f, target) ==
  CHOOSE i \in DOMAIN f.rows :
    /\ RawCell(f, i, TARGET_COLUMN) = target
    /\ \A j \in DOMAIN f.rows : RawCell(f, j, TARGET_COLUMN) = target => j <= i

TrimmedLowerNames(ms) ==
  \A i \in DOMAIN ms : \A name \in DOMAIN ms[i] : NormalizeName(name) = name

\* C23: two inputs that differ only in the letter case of their header names and the
\* whitespace around them load to the same outcome: the same MappingSet, its field
\* names trimmed and lower-case, or the same error.
C23_HeaderCaseIgnored ==
  (IsLoad /\ earlier.op = "load_mappings") =>
    /\ last.status = earlier.status
    /\ last.error = earlier.error
    /\ last.status = "returned" =>
         (mappings = earlier.value /\ TrimmedLowerNames(mappings))

\* the columns of file f whose trimmed lower-case name is in names, as written
ColumnsNamed(f, names) ==
  LET kept == SelectSeq([j \in DOMAIN f.header |-> j],
                        LAMBDA j : NormalizeName(f.header[j]) \in names)
  IN  [header |-> [k \in DOMAIN kept |-> f.header[kept[k]]],
       rows |-> [i \in DOMAIN f.rows |-> [k \in DOMAIN kept |-> f.rows[i][kept[k]]]]]

\* what generate_validation_queries(a) gives on an orchestrator that loaded file f
QueriesOfFile(f, a) ==
  LET r == parse(f, required_order)
  IN  IF r.ok THEN GenerateOutcome(SQLGenerator(r.mappings), a)
      ELSE GenerateOutcome(NoGenerator, a)

\* every valid file with the same columns of these names as the loaded one gives the
\* queries just generated
QueriesDependOnlyOn(names) ==
  (IsGenerate /\ load_history = "succeeded") =>
    \A g \in ColumnFiles :
      (ColumnsNamed(g, names) = ColumnsNamed(input, names) /\ parse(g, required_order).ok)
        => QueriesOfFile(g, last.args) = last

\* the claim as stated: the queries depend on no column but source_column,
\* target_column, transformation and is_key
C24_Original ==
  QueriesDependOnlyOn({SOURCE_COLUMN, TARGET_COLUMN, TRANSFORMATION, IS_KEY})

\* C24: two valid inputs that differ only in the names or values of columns other than
\* source_column, target_column, transformation, is_key and join_key give the same
\* outcome of generate_validation_queries, byte-identical queries included, for the
\* same arguments.
C24_OtherColumnsIgnored ==
  QueriesDependOnlyOn({SOURCE_COLUMN, TARGET_COLUMN, TRANSFORMATION, IS_KEY, JOIN_KEY})

C24_Witness ==
  /\ IsGenerate /\ load_history = "succeeded" /\ last.status = "returned"
  /\ last.args.query_type = "both"
  /\ NOTES \in Range(input.header)
  /\ \E g \in ColumnFiles :
       /\ g # input /\ g.header = input.header
       /\ ColumnsNamed(g, {SOURCE_COLUMN, TARGET_COLUMN, TRANSFORMATION, IS_KEY, JOIN_KEY})
            = ColumnsNamed(input, {SOURCE_COLUMN, TARGET_COLUMN, TRANSFORMATION, IS_KEY, JOIN_KEY})
       /\ QueriesOfFile(g, last.args) = last

\* C25: loading the same input twice, in the same or in different runs of the program,
\* gives the same outcome: equal MappingSets, or format errors with the same message,
\* also for inputs in which two or more required columns are empty in every row.
C25_LoadDeterministic ==
  (IsLoad /\ earlier.op = "load_mappings") =>
    /\ last.status = earlier.status
    /\ last.error = earlier.error
    /\ last.status = "returned" => mappings = earlier.value

\* this step is a load_mappings call that returned
LoadReturns ==
  /\ last'.op = "load_mappings" /\ last'.status = "returned"
  /\ input' = input /\ earlier' = earlier

\* C26: the orchestrator's, the parser's and the generator's mappings are at all times
\* the one MappingSet of the most recent successful load_mappings: a load that returns
\* sets all three to the entries of the file it read, a second one as much as the
\* first, and no other step changes any of them.
C26_OneMappingSet ==
  [][/\ mappings' = IF LoadReturns THEN parse(input, required_order).mappings ELSE mappings
     /\ parser_mappings' = mappings'
     /\ generator' = IF load_history' = "none" \/ load_history' = "failed_only"
                     THEN NoGenerator ELSE SQLGenerator(mappings')
     /\ (last'.op = "get_mapping_summary" /\ last' # last)
          => last'.value = SummaryValue(mappings', mappings')]_vars

C26_Witness ==
  /\ IsLoad /\ last.status = "returned"
  /\ earlier.op = "load_mappings" /\ earlier.status = "returned"
  /\ earlier.value # mappings
  /\ mappings = parser_mappings /\ generator = SQLGenerator(mappings)
  /\ mappings = parse(input, required_order).mappings

\* the first position of seq that holds tok, Len(seq) + 1 when none does
FirstAt(seq, tok) ==
  IF \E i \in DOMAIN seq : seq[i] = tok
  THEN CHOOSE i \in DOMAIN seq : seq[i] = tok /\ \A j \in 1..(i - 1) : seq[j] # tok
  ELSE Len(seq) + 1

\* the conditions of an ON clause: its parts between the ANDs
RECURSIVE Conditions(_)
Conditions(on) ==
  IF on = <<>> THEN <<>>
  ELSE LET next == FirstAt(on, " AND ")
       IN  <<SubSeq(on, 1, next - 1)>> \o Conditions(SubSeq(on, next + 1, Len(on)))

\* the ON clauses of the LEFT JOIN fallbacks of a query text, in text order
OnClauses(text) ==
  LET at == PositionsOf(text, "  ON ")
  IN  [n \in DOMAIN at |-> RestOfLine(text, at[n])]

\* the WHERE clauses of the LEFT JOIN fallbacks of a query text, in text order
WhereClauses(text) ==
  LET at == PositionsOf(text, "WHERE ")
      end(p) == CHOOSE k \in (p + 1)..Len(text) :
                  text[k] = " IS NULL;\n" /\ \A j \in (p + 1)..(k - 1) : text[j] # " IS NULL;\n"
  IN  [n \in DOMAIN at |-> SubSeq(text, at[n] + 1, end(at[n]))]

\* the columns an ON clause joins on: what its equalities name after the left alias
KeysJoinedOn(on) ==
  IF on = <<"1=1">> THEN <<>>
  ELSE LET conds == Conditions(on)
       IN  [n \in DOMAIN conds |-> SubSeq(conds[n], 3, FirstAt(conds[n], " = ") - 1)]

\* the key list as the claim gives it: the target column, or the source column when
\* there is no target, of the entries whose is_key is True; of the first entry when
\* there is none
ClaimedKeys(ms) ==
  LET key_col(m) == IF Truthy(Get(m, TARGET_COLUMN)) THEN Get(m, TARGET_COLUMN)
                    ELSE Get(m, SOURCE_COLUMN)
      marked == SelectSeq(ms, LAMBDA m : Get(m, IS_KEY) = BoolVal(Word("True")))
  IN  IF marked = <<>> THEN <<key_col(ms[1])>>
      ELSE [n \in DOMAIN marked |-> key_col(marked[n])]

NamesColumn(m) == Truthy(Get(m, TARGET_COLUMN)) \/ Truthy(Get(m, SOURCE_COLUMN))

IsOneDirection ==
  /\ last.op \in {"generate_source_minus_target", "generate_target_minus_source"}
  /\ last.status = "returned"

\* C27: the LEFT JOIN fallback joins on the target column (the source column when the
\* target is empty) of exactly the entries whose is_key is true, in mapping order, an
\* entry without is_key value never being one of them, and on the column of the first
\* entry when no entry is marked; the key list is never empty.
C27_KeysAreMarkedEntries ==
  (IsOneDirection /\ \A i \in DOMAIN generator.mappings : NamesColumn(generator.mappings[i])) =>
    LET keys == KeysJoinedOn(OnClauses(last.value)[1])
        claimed == ClaimedKeys(generator.mappings)
    IN  /\ keys = [n \in DOMAIN claimed |-> Fmt(claimed[n])]
        /\ keys # <<>>

\* the aliases <<left, right>> of the fallback of the query a generator method writes
FallbackAliases(op) ==
  IF op = "generate_source_minus_target" THEN <<"s", "t">> ELSE <<"t", "s">>

\* <a>.<k> = <b>.<k>
Equality(a, k, b) == <<a, ".">> \o Fmt(k) \o <<" = ", b, ".">> \o Fmt(k)

\* C28: the LEFT JOIN fallback joins on one equality <a>.<k> = <b>.<k> per inferred key,
\* in key order, joined with AND, with the aliases (s, t) in source-minus-target and
\* (t, s) in target-minus-source; its WHERE clause tests the first key on the
\* right-hand alias for NULL; the condition is 1=1 exactly when the key list is empty.
C28_FallbackJoin ==
  IsOneDirection =>
    LET keys == _get_join_keys(generator.mappings)
        a == FallbackAliases(last.op)[1]
        b == FallbackAliases(last.op)[2]
        on == OnClauses(last.value)
        where == WhereClauses(last.value)
    IN  /\ Len(on) = 1 /\ Len(where) = 1
        /\ (on[1] = <<"1=1">>) <=> (keys = <<>>)
        /\ keys # <<>> =>
             /\ Conditions(on[1]) = [n \in DOMAIN keys |-> Equality(a, keys[n], b)]
             /\ where[1] = <<b, ".">> \o Fmt(keys[1]) \o <<" IS NULL;\n">>

C28_Witness ==
  /\ IsOneDirection /\ last.op = "generate_target_minus_source"
  /\ Len(_get_join_keys(generator.mappings)) = MaxRows
  /\ Len(Conditions(OnClauses(last.value)[1])) = MaxRows
  /\ OccursAt(last.value, <<"  ON ", "t", ".", "cust_id", " = ", "s", ".", "cust_id", " AND ">>,
              FirstAt(last.value, "  ON "))

C28_WitnessNoKeys ==
  /\ IsOneDirection /\ _get_join_keys(generator.mappings) = <<>>
  /\ OnClauses(last.value) = << <<"1=1">> >>

Modes == {"both", "source_minus_target", "target_minus_source"}

\* C29: on a Loaded orchestrator, generate_validation_queries called with a mode other
\* than both, source_minus_target and target_minus_source returns an empty map and
\* raises no error, and leaves the orchestrator Loaded with the same MappingSet.
C29_UnknownModeEmptyMap ==
  [][(/\ ~generator.is_none
      /\ last'.op = "generate_validation_queries"
      /\ last'.args.query_type \notin Modes)
     => /\ last'.status = "returned"
        /\ last'.error = NoError
        /\ DOMAIN last'.value = {}
        /\ ~generator'.is_none
        /\ UNCHANGED <<mappings, parser_mappings, generator>>]_vars

C29_Witness ==
  /\ IsGenerate /\ last.args.query_type \notin Modes
  /\ load_history = "succeeded" /\ ~generator.is_none
  /\ last.status = "returned" /\ DOMAIN last.value = {}
  /\ \E i \in DOMAIN mappings : StripRaises(mappings[i])

\* the threads whose call of op has returned
ReturnedFrom(op) ==
  {t \in Threads : /\ calls[t].op = op /\ calls[t].pc = "done"
                   /\ calls[t].result.status = "returned"}

\* the get_shared_query calls that returned the share id
ViewsOf(id) ==
  {t \in ReturnedFrom("get_shared_query") :
     calls[t].args.share_id = id /\ "query" \in DOMAIN calls[t].result.value}

\* the query that id was created with is stored under id, with a view_count of the
\* number of get_shared_query calls that returned it
Kept(id, query) ==
  /\ shares_file.parses
  /\ id \in DOMAIN shares_file.shares
  /\ shares_file.shares[id].query = query
  /\ shares_file.shares[id].view_count = Cardinality(ViewsOf(id))

NoCallInFlight == \A t \in DOMAIN calls : calls[t].pc \in {"idle", "done"}

\* C30: under every interleaving of concurrent create_share_link and get_shared_query
\* calls, once the calls are over every share id that create_share_link returned is
\* stored with the query it was created with, and its view_count is the number of
\* get_shared_query calls that returned it: no share and no view is lost.
C30_NoShareNoViewLost ==
  (DOMAIN calls = Threads /\ NoCallInFlight) =>
    /\ \A t \in ReturnedFrom("create_share_link") :
         Kept(calls[t].result.value, calls[t].args.query)
    /\ ViewsOf(OldShareId) # {} =>
         \E q \in ShareQueries : Kept(OldShareId, q)

====
